---- MODULE Spec2Model ----
(***************************************************************************)
(* A model of the team-balancing engine, the training-match store and the  *)
(* fine ledger of the bkskjold application.                                *)
(*                                                                         *)
(* Win rates and team strengths are Python floats in the source; they are  *)
(* modelled as exact fractions <<numerator, denominator>> in lowest terms. *)
(* Every random.shuffle is a nondeterministic choice of the resulting      *)
(* order.                                                                  *)
(***************************************************************************)
EXTENDS Integers, Sequences, FiniteSets, TLC

VARIABLES
    matchFile,          \* training_matches.json
    finesFile,          \* fines_data.json (app_config.DATABASE_FILE)
    fines_calculator,   \* st.session_state.fines_calculator (its fines_data)
    selected_players,   \* st.session_state.selected_players
    generated_teams,    \* st.session_state.generated_teams
    team_balance_info,  \* st.session_state.team_balance_info
    pending_match_id,   \* st.session_state.pending_match_id
    now,                \* the wall clock read by datetime.now() / time.time()
    player_stats,       \* self.player_stats of a long-lived IntelligentTeamGenerator
    ret                 \* the last operation: its name, arguments and outcome

vars == <<matchFile, finesFile, fines_calculator, selected_players,
          generated_teams, team_balance_info, pending_match_id, now, player_stats, ret>>

(***************************************************************************)
(* Bounds of the model.                                                    *)
(***************************************************************************)
MaxPlayers == 4
MaxHistory == 1

Names == <<"A", "B", "C", "D", "E", "F", "G">>
Players == {Names[i] : i \in 1..MaxPlayers}

\* Python's None, for a string, for a team number and for an object
None == "None"
NoTeam == 0
NoValue == [none |-> TRUE]

(***************************************************************************)
(* Sequences and sets.                                                     *)
(***************************************************************************)
SeqToSet(s) == {s[i] : i \in DOMAIN s}

Count(s, x) == Cardinality({i \in DOMAIN s : s[i] = x})

Min(a, b) == IF a <= b THEN a ELSE b

RECURSIVE Shuffles(_)
\* every order of the entries of the list s (the outcomes of random.shuffle)
Shuffles(s) ==
    IF Len(s) <= 1 THEN {s}
    ELSE UNION {{<<s[i]>> \o p :
                    p \in Shuffles(SubSeq(s, 1, i - 1) \o SubSeq(s, i + 1, Len(s)))} :
                i \in DOMAIN s}

\* the members of the set S of names, in the order of Names
RECURSIVE InOrder(_, _)
InOrder(S, i) ==
    IF i > Len(Names) THEN <<>>
    ELSE (IF Names[i] \in S THEN <<Names[i]>> ELSE <<>>) \o InOrder(S, i + 1)

(***************************************************************************)
(* Fractions.                                                              *)
(***************************************************************************)
RECURSIVE GCD(_, _)
GCD(a, b) == IF b = 0 THEN a ELSE GCD(b, a % b)

Abs(n) == IF n < 0 THEN -n ELSE n

Frac(n, d) ==
    LET g == GCD(Abs(n), d)
    IN  IF n < 0 THEN <<-(Abs(n) \div g), d \div g>> ELSE <<n \div g, d \div g>>

FAdd(a, b) == Frac(a[1] * b[2] + b[1] * a[2], a[2] * b[2])
FSub(a, b) == Frac(a[1] * b[2] - b[1] * a[2], a[2] * b[2])
FAbs(a) == <<Abs(a[1]), a[2]>>
FDivInt(a, n) == Frac(a[1], a[2] * n)
FMulInt(a, n) == Frac(a[1] * n, a[2])
FLess(a, b) == a[1] * b[2] < b[1] * a[2]
FLeq(a, b) == a[1] * b[2] <= b[1] * a[2]

Zero == Frac(0, 1)
One == Frac(1, 1)

(***************************************************************************)
(* Files.  A file is missing, holds text that is not JSON (the state an    *)
(* interrupted write leaves behind), or holds a JSON document.             *)
(***************************************************************************)
MissingFile == [state |-> "missing", content |-> <<>>]
CorruptFile == [state |-> "corrupt", content |-> <<>>]
JsonFile(c) == [state |-> "ok", content |-> c]

(***************************************************************************)
(* IntelligentTeamGenerator                                                *)
(***************************************************************************)
\* a generator that rates a player without history as one who always lost
losing_win_rate == Frac(0, 1)

default_win_rate == Frac(1, 2)

\* load_training_history: the completed matches of the file; [] when the
\* file is missing or unreadable
load_training_history(file) ==
    IF file.state # "ok" THEN <<>>
    ELSE SelectSeq(file.content, LAMBDA m : m.status = "completed")

WinningPlayers(m) == IF m.winning_team = 1 THEN m.team1 ELSE m.team2
LosingPlayers(m) == IF m.winning_team = 1 THEN m.team2 ELSE m.team1

RECURSIVE CountWins(_, _)
CountWins(matches, p) ==
    IF matches = <<>> THEN 0
    ELSE (IF Head(matches).winning_team = NoTeam THEN 0
          ELSE Count(WinningPlayers(Head(matches)), p))
         + CountWins(Tail(matches), p)

\* statistics that count a player's wins as losses
wins_as_losses(matches, p) == CountWins(matches, p)

RECURSIVE CountLosses(_, _)
CountLosses(matches, p) ==
    IF matches = <<>> THEN 0
    ELSE (IF Head(matches).winning_team = NoTeam THEN 0
          ELSE Count(LosingPlayers(Head(matches)), p))
         + CountLosses(Tail(matches), p)

\* calculate_player_statistics: one entry per player of a counted match
calculate_player_statistics(file) ==
    LET matches == load_training_history(file)
        counted == {i \in DOMAIN matches : matches[i].winning_team # NoTeam}
        seen    == UNION {SeqToSet(matches[i].team1) \cup SeqToSet(matches[i].team2) :
                          i \in counted}
    IN  [p \in seen |->
            LET w == CountWins(matches, p)
                l == CountLosses(matches, p)
            IN  [wins |-> w, losses |-> l, matches |-> w + l,
                 win_rate |-> IF w + l > 0 THEN Frac(w, w + l) ELSE default_win_rate]]

get_player_win_rate(stats, player) ==
    IF player \in DOMAIN stats THEN stats[player].win_rate ELSE default_win_rate

RECURSIVE SumWinRates(_, _)
SumWinRates(stats, team) ==
    IF team = <<>> THEN Zero
    ELSE FAdd(get_player_win_rate(stats, Head(team)), SumWinRates(stats, Tail(team)))

calculate_team_strength(stats, team) ==
    IF team = <<>> THEN Zero
    ELSE FDivInt(SumWinRates(stats, team), Len(team))

StrengthDifference(stats, team1, team2) ==
    FAbs(FSub(calculate_team_strength(stats, team1), calculate_team_strength(stats, team2)))

\* a loop that deals the shuffled players to the teams in turn
alternate_loop(stats, order, i, team1, team2, team_size) ==
    <<[j \in 1..team_size |-> order[2 * j - 1]], [j \in 1..team_size |-> order[2 * j]]>>

\* the loop of generate_balanced_teams_greedy over the shuffled players
RECURSIVE GreedyLoop(_, _, _, _, _, _)
GreedyLoop(stats, order, i, team1, team2, team_size) ==
    IF i > Len(order) THEN <<team1, team2>>
    ELSE IF Len(team1) >= team_size /\ Len(team2) >= team_size THEN <<team1, team2>>
    ELSE IF Len(team1) >= team_size
         THEN GreedyLoop(stats, order, i + 1, team1, Append(team2, order[i]), team_size)
    ELSE IF Len(team2) >= team_size
         THEN GreedyLoop(stats, order, i + 1, Append(team1, order[i]), team2, team_size)
    ELSE LET team1_diff == FAbs(FSub(calculate_team_strength(stats, Append(team1, order[i])),
                                     calculate_team_strength(stats, team2)))
             team2_diff == FAbs(FSub(calculate_team_strength(stats, Append(team2, order[i])),
                                     calculate_team_strength(stats, team1)))
         IN  IF FLeq(team1_diff, team2_diff)
             THEN GreedyLoop(stats, order, i + 1, Append(team1, order[i]), team2, team_size)
             ELSE GreedyLoop(stats, order, i + 1, team1, Append(team2, order[i]), team_size)

\* generate_balanced_teams_greedy: the set of its possible results
generate_balanced_teams_greedy(stats, players) ==
    IF Len(players) < 2 THEN {<<SubSeq(players, 1, Min(1, Len(players))), SubSeq(players, 2, Len(players))>>}
    ELSE {GreedyLoop(stats, order, 1, <<>>, <<>>, Len(players) \div 2) :
            order \in Shuffles(players)}

\* itertools.combinations(range(lo, n + 1), k), as a list in its order
RECURSIVE combinations(_, _, _)
combinations(lo, n, k) ==
    IF k = 0 THEN <<<<>>>>
    ELSE IF n - lo + 1 < k THEN <<>>
    ELSE LET with == combinations(lo + 1, n, k - 1)
         IN  [j \in 1..Len(with) |-> <<lo>> \o with[j]] \o combinations(lo + 1, n, k)

\* [players[i] for i in indices]
PickPlayers(players, indices) == [j \in 1..Len(indices) |-> players[indices[j]]]

\* [players[i] for i in range(num_players) if i not in indices]
OtherPlayers(players, indices) ==
    LET RECURSIVE Rest(_)
        Rest(i) == IF i > Len(players) THEN <<>>
                   ELSE (IF i \in SeqToSet(indices) THEN <<>> ELSE <<players[i]>>)
                        \o Rest(i + 1)
    IN  Rest(1)

\* The orders in which the shuffled list of combinations is evaluated.  A
\* short list takes every order.  A longer one has too many to enumerate;
\* it takes the orders that bring one entry to the front and keep the rest
\* in place: the search loop returns the first entry under its threshold
\* or else the first entry of least difference, and each entry is first in
\* one of these orders.
FullShuffleLen == 3

CombinationOrders(all) ==
    IF Len(all) <= FullShuffleLen THEN Shuffles(all)
    ELSE {<<all[i]>> \o SubSeq(all, 1, i - 1) \o SubSeq(all, i + 1, Len(all)) :
            i \in DOMAIN all}

max_iterations == 1000
GreedyAbove == 16
\* a search that stops at the first combination it looks at
wide_exit == Frac(2, 1)

EarlyExit == Frac(5, 100)

\* a search that keeps the first entry of the shuffled list
first_combination(stats, players, order, i, max_combinations, best) ==
    <<PickPlayers(players, order[1]), OtherPlayers(players, order[1]),
      StrengthDifference(stats, PickPlayers(players, order[1]), OtherPlayers(players, order[1]))>>

\* the search loop of generate_balanced_teams_optimal over the first
\* max_combinations entries of the shuffled list; best = <<>> stands for
\* best_difference = inf with no team kept
RECURSIVE OptimalLoop(_, _, _, _, _, _)
OptimalLoop(stats, players, order, i, max_combinations, best) ==
    IF i > max_combinations THEN best
    ELSE LET team1 == PickPlayers(players, order[i])
             team2 == OtherPlayers(players, order[i])
             difference == StrengthDifference(stats, team1, team2)
             better == IF best = <<>> THEN TRUE ELSE FLess(difference, best[3])
             newbest == IF better THEN <<team1, team2, difference>> ELSE best
         IN  IF FLess(difference, EarlyExit) THEN newbest
             ELSE OptimalLoop(stats, players, order, i + 1, max_combinations, newbest)

\* generate_balanced_teams_optimal: the set of its possible results
generate_balanced_teams_optimal(stats, players) ==
    IF Len(players) < 2 THEN {<<SubSeq(players, 1, Min(1, Len(players))), SubSeq(players, 2, Len(players))>>}
    ELSE IF Len(players) > GreedyAbove THEN generate_balanced_teams_greedy(stats, players)
    ELSE LET all_combinations == combinations(1, Len(players), Len(players) \div 2)
             max_combinations == Min(max_iterations, Len(all_combinations))
         IN  UNION {LET best == OptimalLoop(stats, players, order, 1, max_combinations, <<>>)
                    IN  IF best = <<>> \/ (best[1] = <<>> /\ best[2] = <<>>)
                        THEN generate_balanced_teams_greedy(stats, players)
                        ELSE {<<best[1], best[2]>>} :
                    order \in CombinationOrders(all_combinations)}

get_team_balance_info(stats, team1, team2) ==
    LET strength1 == calculate_team_strength(stats, team1)
        strength2 == calculate_team_strength(stats, team2)
    IN  [team1_strength |-> strength1,
         team2_strength |-> strength2,
         strength_difference |-> FAbs(FSub(strength1, strength2)),
         balance_percentage |-> FMulInt(FSub(One, FAbs(FSub(strength1, strength2))), 100),
         team1_players_stats |-> [j \in DOMAIN team1 |->
                                    <<team1[j], get_player_win_rate(stats, team1[j])>>],
         team2_players_stats |-> [j \in DOMAIN team2 |->
                                    <<team2[j], get_player_win_rate(stats, team2[j])>>]]

\* generate_smart_teams: the set of its possible results <<team1, team2, balance_info>>
generate_smart_teams(file, players, algorithm) ==
    LET stats == calculate_player_statistics(file)
        teams == IF algorithm = "greedy"
                 THEN generate_balanced_teams_greedy(stats, players)
                 ELSE generate_balanced_teams_optimal(stats, players)
    IN  {<<t[1], t[2], get_team_balance_info(stats, t[1], t[2])>> : t \in teams}

(***************************************************************************)
(* The clock.  A reading is <<day, second of the day, microsecond>>; two   *)
(* reads may return the same reading.                                      *)
(***************************************************************************)
MaxDay == 0
MaxSecond == 1
MaxMicro == 1

Times == (0..MaxDay) \X (0..MaxSecond) \X (0..MaxMicro)
T0 == <<0, 0, 0>>

TimeLeq(a, b) ==
    \/ a[1] < b[1]
    \/ a[1] = b[1] /\ a[2] < b[2]
    \/ a[1] = b[1] /\ a[2] = b[2] /\ a[3] <= b[3]

\* timestamp.strftime('%Y%m%d_%H%M%S')
SecondStamp(t) == ToString(t[1]) \o "_" \o ToString(t[2])
\* int(time.time() * 1000000) % 1000000
MicroStamp(t) == ToString(t[3])
\* timestamp.isoformat()[:10]
DateStamp(t) == ToString(t[1])

(***************************************************************************)
(* The training-match store (views/team_selector.py and                    *)
(* views/training_history.py).                                             *)
(***************************************************************************)
\* load_training_matches: [] when the file is missing or unreadable
load_training_matches(file) == IF file.state = "ok" THEN file.content ELSE <<>>

MatchId(prefix, t) == prefix \o "_" \o SecondStamp(t) \o "_" \o MicroStamp(t)

\* save_training_match: the new content of the file
save_training_match(file, team1, team2, winning_team, t) ==
    Append(load_training_matches(file),
           [date |-> t, team1 |-> team1, team2 |-> team2,
            winning_team |-> winning_team, created_at |-> t,
            match_id |-> MatchId("training", t), status |-> "completed"])

\* save_pending_match: the new content of the file
save_pending_match(file, team1, team2, t) ==
    Append(load_training_matches(file),
           [date |-> t, team1 |-> team1, team2 |-> team2,
            winning_team |-> NoTeam, created_at |-> t,
            match_id |-> MatchId("pending", t), status |-> "pending"])

\* the index of the first pending match with this id, 0 when there is none
FirstPending(matches, match_id) ==
    LET hits == {i \in DOMAIN matches :
                    matches[i].match_id = match_id /\ matches[i].status = "pending"}
    IN  IF hits = {} THEN 0 ELSE CHOOSE i \in hits : \A j \in hits : i <= j

\* a completion that stores the status and leaves winning_team as it was
complete_without_winner(file, match_id, winning_team, t) ==
    LET matches == load_training_matches(file)
        i == FirstPending(matches, match_id)
    IN  IF i = 0 THEN <<FALSE, None>>
        ELSE <<TRUE, [matches EXCEPT ![i] =
                        [date |-> @.date, team1 |-> @.team1, team2 |-> @.team2,
                         winning_team |-> @.winning_team, created_at |-> @.created_at,
                         match_id |-> @.match_id, status |-> "completed",
                         completed_at |-> t]]>>

\* complete_pending_match: <<returned value, written content>>; nothing is
\* written when no pending match has the id
complete_pending_match(file, match_id, winning_team, t) ==
    LET matches == load_training_matches(file)
        i == FirstPending(matches, match_id)
    IN  IF i = 0 THEN <<FALSE, None>>
        ELSE <<TRUE, [matches EXCEPT ![i] =
                        [date |-> @.date, team1 |-> @.team1, team2 |-> @.team2,
                         winning_team |-> winning_team, created_at |-> @.created_at,
                         match_id |-> @.match_id, status |-> "completed",
                         completed_at |-> t]]>>

\* delete_pending_match: <<returned value, written content>>
delete_pending_match(file, match_id) ==
    LET matches == load_training_matches(file)
        kept == SelectSeq(matches, LAMBDA m : m.match_id # match_id)
    IN  IF Len(kept) < Len(matches) THEN <<TRUE, kept>> ELSE <<FALSE, None>>

(***************************************************************************)
(* The last operation.                                                     *)
(***************************************************************************)
NoRet == [op |-> "none"]
Returned(op, args, val) == [op |-> op, args |-> args, val |-> val, raised |-> FALSE]
Raised(op, args) == [op |-> op, args |-> args, raised |-> TRUE]

(***************************************************************************)
(* Team generation (views/team_selector.py).                               *)
(***************************************************************************)
\* generate_teams_callback: whether it takes its size-adjustment path
SizesAdjusted(players, smart) ==
    Len(smart[1]) # Len(players) \div 2 \/ Len(smart[2]) # Len(players) \div 2

\* the steps of generate_teams_callback after the shuffle, for one result
\* <<team1, team2, balance_info>> of generate_smart_teams
StoreGeneratedTeams(players, smart) ==
    LET num_selected == Len(players)
        expected_team_size == num_selected \div 2
        adjust == SizesAdjusted(players, smart)
        all_players == smart[1] \o smart[2]
        team1 == IF adjust THEN SubSeq(all_players, 1, Min(expected_team_size, Len(all_players)))
                 ELSE smart[1]
        team2 == IF adjust
                 THEN SubSeq(all_players, expected_team_size + 1,
                             Min(expected_team_size * 2, Len(all_players)))
                 ELSE smart[2]
        remaining == IF num_selected % 2 = 1
                     THEN SubSeq(players, expected_team_size * 2 + 1, num_selected)
                     ELSE <<>>
    IN  [team1 |-> team1, team2 |-> team2, remaining |-> remaining,
         team_size |-> Len(team1)]

\* generate_teams_callback
GenerateTeamsCallback ==
    /\ Len(selected_players) >= 2
    /\ \E shuffled \in Shuffles(selected_players) :
       \E smart \in generate_smart_teams(matchFile, shuffled, "optimal") :
          /\ selected_players' = shuffled
          /\ team_balance_info' = smart[3]
          /\ generated_teams' = StoreGeneratedTeams(shuffled, smart)
          /\ pending_match_id' = None
          /\ ret' = Returned("generate_teams_callback", shuffled,
                          [adjusted |-> SizesAdjusted(shuffled, smart)])
    /\ UNCHANGED <<matchFile, finesFile, fines_calculator, now>>
    /\ UNCHANGED player_stats

\* a call of generate_smart_teams on a list of players
GenerateSmartTeams(algorithm) ==
    /\ \E smart \in generate_smart_teams(matchFile, selected_players, algorithm) :
          ret' = Returned("generate_smart_teams", <<selected_players, algorithm>>, smart)
    /\ UNCHANGED <<matchFile, finesFile, fines_calculator, selected_players,
                   generated_teams, team_balance_info, pending_match_id, now>>
    /\ UNCHANGED player_stats

(***************************************************************************)
(* Team generation on its own: the selected players and the match history  *)
(* are inputs.                                                             *)
(***************************************************************************)
\* the matches of an input history: two disjoint pairs of the first four
\* players, either completed with a winner or still pending
HistoryPlayers == {Names[i] : i \in 1..4}

TeamInputs == {InOrder(S, 1) : S \in {S \in SUBSET HistoryPlayers : Cardinality(S) = 2}}

MatchInputs ==
    {[date |-> T0, team1 |-> x[1], team2 |-> x[2], winning_team |-> x[3], created_at |-> T0,
      match_id |-> MatchId("training", T0), status |-> "completed"] :
        x \in {x \in TeamInputs \X TeamInputs \X {1, 2} :
                 SeqToSet(x[1]) \cap SeqToSet(x[2]) = {}}}
    \cup
    {[date |-> T0, team1 |-> x[1], team2 |-> x[2], winning_team |-> NoTeam, created_at |-> T0,
      match_id |-> MatchId("pending", T0), status |-> "pending"] :
        x \in {x \in TeamInputs \X TeamInputs : SeqToSet(x[1]) \cap SeqToSet(x[2]) = {}}}

RECURSIVE SeqsUpTo(_, _)
SeqsUpTo(S, n) ==
    IF n = 0 THEN {<<>>}
    ELSE LET shorter == SeqsUpTo(S, n - 1)
         IN  shorter \cup {Append(h, m) : h \in shorter, m \in S}

InitTeams ==
    /\ matchFile \in {MissingFile} \cup {JsonFile(h) : h \in SeqsUpTo(MatchInputs, MaxHistory)}
    /\ finesFile = MissingFile
    /\ fines_calculator = NoValue
    /\ selected_players \in {InOrder(S, 1) : S \in SUBSET Players}
    /\ generated_teams = NoValue
    /\ team_balance_info = NoValue
    /\ pending_match_id = None
    /\ now = T0
    /\ ret = NoRet
    /\ player_stats = <<>>

\* clear_teams_callback
ClearTeamsCallback ==
    /\ generated_teams' = NoValue
    /\ pending_match_id' = None
    /\ ret' = Returned("clear_teams_callback", <<>>, None)
    /\ UNCHANGED <<matchFile, finesFile, fines_calculator, selected_players,
                   team_balance_info, now>>
    /\ UNCHANGED player_stats

NextTeams ==
    \/ GenerateTeamsCallback
    \/ ClearTeamsCallback

SpecTeams == InitTeams /\ [][NextTeams]_vars

NextGenerator ==
    \/ GenerateSmartTeams("greedy")
    \/ GenerateSmartTeams("optimal")

SpecGenerator == InitTeams /\ [][NextGenerator]_vars

(***************************************************************************)
(* The fine ledger: FinesCalculator (spond_integration.py).  A ledger is a *)
(* mapping from fine keys to fine records.                                 *)
(***************************************************************************)
EmptyLedger == <<>>

Put(ledger, key, record) ==
    [k \in DOMAIN ledger \cup {key} |-> IF k = key THEN record ELSE ledger[k]]

Without(ledger, keys) == [k \in DOMAIN ledger \ keys |-> ledger[k]]

\* load_fines_data: {} when the file is missing or is not JSON
load_fines_data(file) == IF file.state = "ok" THEN file.content ELSE EmptyLedger

\* initialize_fines_calculator: the session's calculator, created from the
\* file when the session has none
initialize_fines_calculator(calculator, file) ==
    IF calculator = NoValue THEN load_fines_data(file) ELSE calculator

\* name.replace(' ', '_') on the names of the model
ReplaceSpaces(name) ==
    CASE name = "Ann Lee" -> "Ann_Lee"
      [] name = "Bo Dam" -> "Bo_Dam"
      [] OTHER -> name

TRAINING_LOSS_FINE == 25

TrainingEventId(t) == "TRAINING_MATCH_" \o SecondStamp(t)

TrainingFineKey(player_name, t) == TrainingEventId(t) \o "_" \o ReplaceSpaces(player_name)

TrainingFine(player_name, reason, t) ==
    [player_id |-> ReplaceSpaces(player_name), player_name |-> player_name,
     event_id |-> TrainingEventId(t), event_name |-> "Traeningskamp - " \o reason,
     event_date |-> t, fine_type |-> "training_loss",
     fine_amount |-> TRAINING_LOSS_FINE, paid |-> FALSE, created_date |-> t]

\* the loop of add_training_fines / add_training_fines_from_history:
\* fines_data[fine_key] = fine_info for every losing player
RECURSIVE add_training_fines(_, _, _, _)
add_training_fines(ledger, losing_players, reason, t) ==
    IF losing_players = <<>> THEN ledger
    ELSE add_training_fines(
            Put(ledger, TrainingFineKey(Head(losing_players), t),
                TrainingFine(Head(losing_players), reason, t)),
            Tail(losing_players), reason, t)

WinReason(winning_team) ==
    IF winning_team = 1 THEN "Hold 1 vandt traeningskampen"
    ELSE "Hold 2 vandt traeningskampen"

(***************************************************************************)
(* Writing a file.  open(path, 'w') empties the file and json.dump then    *)
(* writes the document piece by piece; a process that is stopped in        *)
(* between leaves text that is not JSON, and its session is gone.          *)
(***************************************************************************)
WriteOutcomes == {"written", "interrupted"}

Written(content, outcome) == IF outcome = "written" THEN JsonFile(content) ELSE CorruptFile

\* the session state of a process that was stopped and started again
SessionLost ==
    /\ fines_calculator' = NoValue
    /\ selected_players' = <<>>
    /\ generated_teams' = NoValue
    /\ team_balance_info' = NoValue
    /\ pending_match_id' = None

Interrupted(op, args) == [op |-> op, args |-> args, interrupted |-> TRUE, raised |-> FALSE]

(***************************************************************************)
(* The handlers of the match store.                                        *)
(***************************************************************************)
MaxMatches == 2

\* the clock moves on
Tick ==
    /\ \E t \in Times : t # now /\ TimeLeq(now, t) /\ now' = t
    /\ UNCHANGED <<matchFile, finesFile, fines_calculator, selected_players,
                   generated_teams, team_balance_info, pending_match_id, ret>>
    /\ UNCHANGED player_stats

\* confirm_teams_callback: save_pending_match on the generated teams
ConfirmTeamsCallback ==
    /\ generated_teams # NoValue
    /\ Len(load_training_matches(matchFile)) < MaxMatches
    /\ \E w \in WriteOutcomes :
        /\ matchFile' = Written(save_pending_match(matchFile, generated_teams.team1,
                                                   generated_teams.team2, now), w)
        /\ IF w = "written"
           THEN /\ pending_match_id' = MatchId("pending", now)
                /\ ret' = Returned("save_pending_match", <<>>, MatchId("pending", now))
                /\ UNCHANGED <<fines_calculator, selected_players, generated_teams,
                               team_balance_info>>
           ELSE /\ SessionLost
                /\ ret' = Interrupted("save_pending_match", <<>>)
    /\ UNCHANGED <<finesFile, now>>
    /\ UNCHANGED player_stats

\* the fines of a recorded result: initialize_fines_calculator, the loop
\* over the losing players and save_fines_data
TrainingFinesAdded(losing_players, winning_team, w) ==
    LET ledger == add_training_fines(initialize_fines_calculator(fines_calculator, finesFile),
                                     losing_players, WinReason(winning_team), now)
    IN  /\ finesFile' = Written(ledger, w)
        /\ fines_calculator' = IF w = "written" THEN ledger ELSE NoValue

\* team1_wins_callback (winning_team = 1) and team2_wins_callback
\* (winning_team = 2)
TeamWinsCallback(winning_team) ==
    /\ generated_teams # NoValue
    /\ (IF winning_team = 1 THEN generated_teams.team2 ELSE generated_teams.team1) # <<>>
    /\ LET losing == IF winning_team = 1 THEN generated_teams.team2
                     ELSE generated_teams.team1
           done == IF pending_match_id # None
                   THEN complete_pending_match(matchFile, pending_match_id, winning_team, now)
                   ELSE <<TRUE, save_training_match(matchFile, generated_teams.team1,
                                                    generated_teams.team2, winning_team, now)>>
           op == IF pending_match_id # None THEN "complete_pending_match"
                 ELSE "save_training_match"
           args == <<pending_match_id, winning_team>>
       IN  /\ pending_match_id = None => Len(load_training_matches(matchFile)) < MaxMatches
           /\ IF ~done[1]
              THEN /\ ret' = Returned(op, args, FALSE)
                   /\ UNCHANGED <<matchFile, finesFile, fines_calculator, selected_players,
                                  generated_teams, team_balance_info, pending_match_id>>
              ELSE \E w1 \in WriteOutcomes, w2 \in WriteOutcomes :
                    /\ matchFile' = Written(done[2], w1)
                    /\ IF w1 = "written"
                       THEN TrainingFinesAdded(losing, winning_team, w2)
                       ELSE /\ w2 = "interrupted"
                            /\ UNCHANGED finesFile
                            /\ fines_calculator' = NoValue
                    /\ IF w2 = "written"
                       THEN /\ ret' = Returned(op, args, TRUE)
                            /\ UNCHANGED <<selected_players, generated_teams,
                                           team_balance_info, pending_match_id>>
                       ELSE /\ ret' = Interrupted(op, args)
                            /\ selected_players' = <<>>
                            /\ generated_teams' = NoValue
                            /\ team_balance_info' = NoValue
                            /\ pending_match_id' = None
    /\ UNCHANGED now
    /\ UNCHANGED player_stats

\* the buttons "Hold 1 Vandt" / "Hold 2 Vandt" of display_training_history
\* on the i-th match of the file, shown while it is pending
HistoryTeamWins(i, winning_team) ==
    /\ i \in DOMAIN load_training_matches(matchFile)
    /\ load_training_matches(matchFile)[i].status = "pending"
    /\ LET match == load_training_matches(matchFile)[i]
           losing == IF winning_team = 1 THEN match.team2 ELSE match.team1
           done == complete_pending_match(matchFile, match.match_id, winning_team, now)
           args == <<match.match_id, winning_team>>
       IN  \E w1 \in WriteOutcomes, w2 \in WriteOutcomes :
            /\ matchFile' = Written(done[2], w1)
            /\ IF w1 = "written"
               THEN TrainingFinesAdded(losing, winning_team, w2)
               ELSE /\ w2 = "interrupted"
                    /\ UNCHANGED finesFile
                    /\ fines_calculator' = NoValue
            /\ IF w2 = "written"
               THEN /\ ret' = Returned("complete_pending_match", args, done[1])
                    /\ UNCHANGED <<selected_players, generated_teams,
                                   team_balance_info, pending_match_id>>
               ELSE /\ ret' = Interrupted("complete_pending_match", args)
                    /\ selected_players' = <<>>
                    /\ generated_teams' = NoValue
                    /\ team_balance_info' = NoValue
                    /\ pending_match_id' = None
    /\ UNCHANGED now
    /\ UNCHANGED player_stats

\* the match ids a call may name: those of the file and one of no match
UnknownMatchId == "pending_unknown"

MatchIdsOf(file) ==
    {load_training_matches(file)[i].match_id : i \in DOMAIN load_training_matches(file)}

\* delete_pending_match(match_id)
DeletePendingMatch(match_id) ==
    /\ LET done == delete_pending_match(matchFile, match_id)
       IN  IF ~done[1]
           THEN /\ ret' = Returned("delete_pending_match", match_id, FALSE)
                /\ UNCHANGED matchFile
           ELSE \E w \in WriteOutcomes :
                 /\ matchFile' = Written(done[2], w)
                 /\ ret' = IF w = "written"
                           THEN Returned("delete_pending_match", match_id, TRUE)
                           ELSE Interrupted("delete_pending_match", match_id)
    /\ UNCHANGED <<finesFile, fines_calculator, selected_players, generated_teams,
                   team_balance_info, pending_match_id, now>>
    /\ UNCHANGED player_stats

(***************************************************************************)
(* The match store on its own: its four operations, called with teams and  *)
(* match ids drawn from small sets.  It starts with no file.               *)
(***************************************************************************)
TeamsInputs == {<<<<"A">>, <<"B">>>>, <<<<"A", "B">>, <<"C", "D">>>>}

\* save_pending_match(team1, team2)
SavePendingMatch(team1, team2) ==
    /\ Len(load_training_matches(matchFile)) < MaxMatches
    /\ \E w \in WriteOutcomes :
        /\ matchFile' = Written(save_pending_match(matchFile, team1, team2, now), w)
        /\ ret' = IF w = "written"
                  THEN Returned("save_pending_match", <<team1, team2>>, MatchId("pending", now))
                  ELSE Interrupted("save_pending_match", <<team1, team2>>)
    /\ UNCHANGED <<finesFile, fines_calculator, selected_players, generated_teams,
                   team_balance_info, pending_match_id, now>>
    /\ UNCHANGED player_stats

\* save_training_match(team1, team2, winning_team)
SaveTrainingMatch(team1, team2, winning_team) ==
    /\ Len(load_training_matches(matchFile)) < MaxMatches
    /\ \E w \in WriteOutcomes :
        /\ matchFile' = Written(save_training_match(matchFile, team1, team2,
                                                    winning_team, now), w)
        /\ ret' = IF w = "written"
                  THEN Returned("save_training_match", <<team1, team2, winning_team>>, TRUE)
                  ELSE Interrupted("save_training_match", <<team1, team2, winning_team>>)
    /\ UNCHANGED <<finesFile, fines_calculator, selected_players, generated_teams,
                   team_balance_info, pending_match_id, now>>
    /\ UNCHANGED player_stats

\* complete_pending_match(match_id, winning_team)
CompletePendingMatch(match_id, winning_team) ==
    /\ LET done == complete_pending_match(matchFile, match_id, winning_team, now)
       IN  IF ~done[1]
           THEN /\ ret' = Returned("complete_pending_match", <<match_id, winning_team>>, FALSE)
                /\ UNCHANGED matchFile
           ELSE \E w \in WriteOutcomes :
                 /\ matchFile' = Written(done[2], w)
                 /\ ret' = IF w = "written"
                           THEN Returned("complete_pending_match",
                                         <<match_id, winning_team>>, TRUE)
                           ELSE Interrupted("complete_pending_match",
                                            <<match_id, winning_team>>)
    /\ UNCHANGED <<finesFile, fines_calculator, selected_players, generated_teams,
                   team_balance_info, pending_match_id, now>>
    /\ UNCHANGED player_stats

InitMatch ==
    /\ matchFile = MissingFile
    /\ finesFile = MissingFile
    /\ fines_calculator = NoValue
    /\ selected_players = <<>>
    /\ generated_teams = NoValue
    /\ team_balance_info = NoValue
    /\ pending_match_id = None
    /\ now = T0
    /\ ret = NoRet
    /\ player_stats = <<>>

NextMatch ==
    \/ Tick
    \/ \E t \in TeamsInputs : SavePendingMatch(t[1], t[2])
    \/ \E t \in TeamsInputs, w \in {1, 2} : SaveTrainingMatch(t[1], t[2], w)
    \/ \E id \in MatchIdsOf(matchFile) \cup {UnknownMatchId}, w \in {1, 2} :
          CompletePendingMatch(id, w)
    \/ \E id \in MatchIdsOf(matchFile) \cup {UnknownMatchId} : DeletePendingMatch(id)

SpecMatch == InitMatch /\ [][NextMatch]_vars

(***************************************************************************)
(* Attendance fines: FinesCalculator.calculate_event_fines,                *)
(* _check_no_response_fines and update_fines_for_events.  A date is a      *)
(* triple <<year, month, day>>; a startTimestamp is a date, <<>> for the   *)
(* empty string, or a sequence of another length for text that is no date. *)
(***************************************************************************)
FINES_CUTOFF_DATE == <<2025, 9, 30>>
FINE_MISSING_TRAINING == 50
FINE_MISSING_MATCH == 100
LATE_RESPONSE_FINE == 25

\* the number of days from a fixed day to the date, as date arithmetic counts
toordinal(date) ==
    LET y == IF date[2] <= 2 THEN date[1] - 1 ELSE date[1]
        m == IF date[2] <= 2 THEN date[2] + 9 ELSE date[2] - 3
        era == y \div 400
        yoe == y - era * 400
        doy == (153 * m + 2) \div 5 + date[3] - 1
        doe == yoe * 365 + yoe \div 4 - yoe \div 100 + doy
    IN  era * 146097 + doe

\* the date of day 0 of the clock
ClockEpoch == <<2025, 10, 1>>

\* (event_time - current_time).total_seconds(): <<s, u>> stands for s seconds
\* less u microseconds
time_until_event(event_start, t) ==
    <<(toordinal(event_start) - (toordinal(ClockEpoch) + t[1])) * 86400 - t[2], t[3]>>

\* time_until_event > 24 or time_until_event < 0, in hours
OutsideDay(until) ==
    \/ until[1] > 24 * 3600
    \/ until[1] < 0
    \/ until[1] = 0 /\ until[2] > 0

\* datetime.fromisoformat accepts the text
IsDate(start) == Len(start) = 3

\* a title counts as a match only when it holds a keyword as it is written
is_match_as_written(heading) ==
    \E keyword \in {"match", "kamp", "spill", "game"} :
        \E i \in 1..(Len(heading) - Len(keyword) + 1) :
            SubSeq(heading, i, i + Len(keyword) - 1) = keyword

\* str.lower() on one character
lower ==
    LET capitals == "ABCDEFGHIJKLMNOPQRSTUVWXYZ"
        smalls == "abcdefghijklmnopqrstuvwxyz"
    IN  [c \in {SubSeq(capitals, j, j) : j \in 1..Len(capitals)} |->
            LET j == CHOOSE j \in 1..Len(capitals) : SubSeq(capitals, j, j) = c
            IN  SubSeq(smalls, j, j)]

\* any(keyword in event_heading.lower()
\*     for keyword in ['match', 'kamp', 'spill', 'game'])
is_match(heading) ==
    LET LowerAt(i) == LET c == SubSeq(heading, i, i)
                      IN  IF c \in DOMAIN lower THEN lower[c] ELSE c
    IN  \E keyword \in {"match", "kamp", "spill", "game"} :
            \E i \in 1..(Len(heading) - Len(keyword) + 1) :
                \A j \in 1..Len(keyword) : LowerAt(i + j - 1) = SubSeq(keyword, j, j)

\* f"{firstName} {lastName}"
MemberName(member) == member.firstName \o " " \o member.lastName

MemberIds(members) == {members[i].id : i \in DOMAIN members}

\* member_map.get(player_id, f"Unknown ({player_id})")
member_map(members, player_id) ==
    IF player_id \in MemberIds(members)
    THEN MemberName(members[CHOOSE i \in DOMAIN members :
                        /\ members[i].id = player_id
                        /\ \A j \in DOMAIN members : members[j].id = player_id => j <= i])
    ELSE "Unknown (" \o player_id \o ")"

\* a 24-hour check without "if member_id in event_fines: continue": the
\* late-response fine replaces the fine of an unanswered member
no_response_overrides(event, members, event_fines, t) ==
    IF \/ event.startTimestamp = <<>>
       \/ OutsideDay(time_until_event(event.startTimestamp, t))
    THEN event_fines
    ELSE [player_id \in DOMAIN event_fines \cup
                {id \in MemberIds(members) : id \in event.unansweredIds} |->
            IF player_id \in MemberIds(members) /\ player_id \in event.unansweredIds
            THEN [player_id |-> player_id,
                  player_name |-> member_map(members, player_id),
                  event_id |-> event.id, event_name |-> event.heading,
                  event_date |-> event.startTimestamp,
                  fine_type |-> "no_response_24h",
                  fine_amount |-> LATE_RESPONSE_FINE, paid |-> FALSE,
                  created_date |-> t]
            ELSE event_fines[player_id]]

\* _check_no_response_fines: the fines it adds to event_fines
_check_no_response_fines(event, members, event_fines, t) ==
    IF \/ event.startTimestamp = <<>>
       \/ OutsideDay(time_until_event(event.startTimestamp, t))
    THEN event_fines
    ELSE [player_id \in DOMAIN event_fines \cup
                {id \in MemberIds(members) :
                    id \notin DOMAIN event_fines /\ id \in event.unansweredIds} |->
            IF player_id \in DOMAIN event_fines THEN event_fines[player_id]
            ELSE [player_id |-> player_id,
                  player_name |-> member_map(members, player_id),
                  event_id |-> event.id, event_name |-> event.heading,
                  event_date |-> event.startTimestamp,
                  fine_type |-> "no_response_24h",
                  fine_amount |-> LATE_RESPONSE_FINE, paid |-> FALSE,
                  created_date |-> t]]

\* calculate_event_fines: a fine for every declined or unanswered player
calculate_event_fines(event, members, t) ==
    LET fine_amount == IF is_match(event.heading) THEN FINE_MISSING_MATCH
                       ELSE FINE_MISSING_TRAINING
        missing_players == event.declinedIds \cup event.unansweredIds
        event_fines ==
            [player_id \in missing_players |->
                [player_id |-> player_id,
                 player_name |-> member_map(members, player_id),
                 event_id |-> event.id, event_name |-> event.heading,
                 event_date |-> event.startTimestamp,
                 fine_type |-> "missing_event",
                 fine_amount |-> fine_amount, paid |-> FALSE,
                 created_date |-> t]]
    IN  _check_no_response_fines(event, members, event_fines, t)

\* f"{event_id}_{player_id}"
FineKey(event_id, player_id) == event_id \o "_" \o player_id

\* a loop that stores every fine of the event, present or not
InsertAllFines(ledger, event_id, event_fines) ==
    [k \in DOMAIN ledger \cup {FineKey(event_id, p) : p \in DOMAIN event_fines} |->
        IF \E p \in DOMAIN event_fines : FineKey(event_id, p) = k
        THEN event_fines[CHOOSE p \in DOMAIN event_fines : FineKey(event_id, p) = k]
        ELSE ledger[k]]

\* a loop that stores a fine whose key is taken under a second key
insert_beside_existing(ledger, event_id, event_fines) ==
    [k \in DOMAIN ledger
            \cup {FineKey(event_id, p) : p \in DOMAIN event_fines}
            \cup {FineKey(event_id, p) \o "_no_response" :
                    p \in {p \in DOMAIN event_fines : FineKey(event_id, p) \in DOMAIN ledger}} |->
        IF k \in DOMAIN ledger THEN ledger[k]
        ELSE event_fines[CHOOSE p \in DOMAIN event_fines :
                            k \in {FineKey(event_id, p), FineKey(event_id, p) \o "_no_response"}]]

\* the inner loop of update_fines_for_events:
\* if fine_key not in self.fines_data: self.fines_data[fine_key] = fine_info
InsertNewFines(ledger, event_id, event_fines) ==
    [k \in DOMAIN ledger \cup {FineKey(event_id, p) : p \in DOMAIN event_fines} |->
        IF k \in DOMAIN ledger THEN ledger[k]
        ELSE event_fines[CHOOSE p \in DOMAIN event_fines : FineKey(event_id, p) = k]]

\* a filter that also skips the events of the cutoff date
skips_through_cutoff(event) ==
    \/ event.startTimestamp = <<>>
    \/ ~IsDate(event.startTimestamp)
    \/ toordinal(event.startTimestamp) <= toordinal(FINES_CUTOFF_DATE)

\* the event is skipped: no start, a start that is no date, or a date before
\* the cutoff
SkipsEvent(event) ==
    \/ event.startTimestamp = <<>>
    \/ ~IsDate(event.startTimestamp)
    \/ toordinal(event.startTimestamp) < toordinal(FINES_CUTOFF_DATE)

\* update_fines_for_events: self.fines_data after the loop over the events
RECURSIVE update_fines_for_events(_, _, _, _)
update_fines_for_events(ledger, events, members, t) ==
    IF events = <<>> THEN ledger
    ELSE update_fines_for_events(
            IF SkipsEvent(Head(events)) THEN ledger
            ELSE InsertNewFines(ledger, Head(events).id,
                                calculate_event_fines(Head(events), members, t)),
            Tail(events), members, t)

\* mark_fine_paid: self.fines_data afterwards
mark_fine_paid(ledger, fine_key, t) ==
    IF fine_key \in DOMAIN ledger
    THEN Put(ledger, fine_key,
             [f \in DOMAIN ledger[fine_key] \cup {"paid_date"} |->
                 IF f = "paid" THEN TRUE
                 ELSE IF f = "paid_date" THEN t
                 ELSE ledger[fine_key][f]])
    ELSE ledger

\* an unticked checkbox that clears the flag and keeps the date
unpaid_keeping_date(ledger, fine_key) ==
    Put(ledger, fine_key, [ledger[fine_key] EXCEPT !.paid = FALSE])

\* fines_data[fine_key]['paid'] = False; del fines_data[fine_key]['paid_date']
mark_fine_unpaid(ledger, fine_key) ==
    Put(ledger, fine_key,
        [f \in DOMAIN ledger[fine_key] \ {"paid_date"} |->
            IF f = "paid" THEN FALSE ELSE ledger[fine_key][f]])

\* fines_data[fine_key]['fine_amount'] = new_amount
set_fine_amount(ledger, fine_key, new_amount) ==
    Put(ledger, fine_key, [ledger[fine_key] EXCEPT !.fine_amount = new_amount])

\* a removal that keeps the key and voids the amount
void_fine(ledger, fine_key) ==
    IF fine_key \in DOMAIN ledger
    THEN Put(ledger, fine_key, [ledger[fine_key] EXCEPT !.fine_amount = 0])
    ELSE ledger

\* remove_fine: self.fines_data afterwards
remove_fine(ledger, fine_key) == Without(ledger, {fine_key})

\* list(self.fines_data.values()); the sums below do not depend on its order
RECURSIVE all_fines(_)
all_fines(ledger) ==
    IF DOMAIN ledger = {} THEN <<>>
    ELSE LET k == CHOOSE k \in DOMAIN ledger : TRUE
         IN  <<ledger[k]>> \o all_fines(Without(ledger, {k}))

\* sum(fine['fine_amount'] for fine in fines)
RECURSIVE SumAmounts(_)
SumAmounts(fines) ==
    IF fines = <<>> THEN 0 ELSE Head(fines).fine_amount + SumAmounts(Tail(fines))

\* a summary that takes every fine for unpaid
every_fine(fines) == fines

\* (fine for fine in fines if not fine['paid'])
UnpaidFines(fines) == SelectSeq(fines, LAMBDA fine : ~fine.paid)

\* the "Group by player" loop of get_fines_summary
RECURSIVE player_totals(_, _)
player_totals(fines, totals) ==
    IF fines = <<>> THEN totals
    ELSE LET fine == Head(fines)
             player_name == fine.player_name
             entry == IF player_name \in DOMAIN totals THEN totals[player_name]
                      ELSE [total_fines |-> 0, total_amount |-> 0, unpaid_amount |-> 0,
                            paid_fines |-> 0]
             counted == [entry EXCEPT !.total_fines = @ + 1,
                                      !.total_amount = @ + fine.fine_amount]
         IN  player_totals(Tail(fines),
                Put(totals, player_name,
                    IF fine.paid THEN [counted EXCEPT !.paid_fines = @ + 1]
                    ELSE [counted EXCEPT !.unpaid_amount = @ + fine.fine_amount]))

get_fines_summary(ledger) ==
    [total_fines |-> Len(all_fines(ledger)),
     total_amount |-> SumAmounts(all_fines(ledger)),
     paid_fines |-> Len(SelectSeq(all_fines(ledger), LAMBDA fine : fine.paid)),
     unpaid_amount |-> SumAmounts(UnpaidFines(all_fines(ledger))),
     player_totals |-> player_totals(all_fines(ledger), <<>>)]

\* the loop of processed_fines_data over the records; the rows of 'events'
\* follow the order of all_fines
RECURSIVE processed(_, _)
processed(fines, by_player) ==
    IF fines = <<>> THEN by_player
    ELSE LET fine == Head(fines)
             player_name == fine.player_name
             entry == IF player_name \in DOMAIN by_player THEN by_player[player_name]
                      ELSE [total_fine |-> 0, unpaid_amount |-> 0, no_show_count |-> 0,
                            late_response_count |-> 0, training_loss_count |-> 0,
                            events |-> <<>>]
             summed == [entry EXCEPT
                           !.total_fine = @ + fine.fine_amount,
                           !.unpaid_amount = IF fine.paid THEN @ ELSE @ + fine.fine_amount]
             counted == IF fine.fine_type = "no_response_24h"
                        THEN [summed EXCEPT !.late_response_count = @ + 1]
                        ELSE IF fine.fine_type = "training_loss"
                        THEN [summed EXCEPT !.training_loss_count = @ + 1]
                        ELSE [summed EXCEPT !.no_show_count = @ + 1]
             row == [startTimestamp |-> fine.event_date, heading |-> fine.event_name,
                     fine_reason |-> fine.fine_type, fine_amount |-> fine.fine_amount]
         IN  processed(Tail(fines),
                Put(by_player, player_name,
                    [counted EXCEPT !.events = Append(@, row)]))

processed_fines_data(ledger) == processed(all_fines(ledger), <<>>)

(***************************************************************************)
(* Manual fines: assign_bulk_manual_fines (views/admin_panel.py).          *)
(***************************************************************************)
\* st.session_state['manual_fine_types']
manual_fine_types == [late |-> [name |-> "For sent", amount |-> 20, description |-> ""]]

\* fine_type_id.upper() on the fine type ids of the model
Upper(fine_type_id) == IF fine_type_id = "late" THEN "LATE" ELSE fine_type_id

\* datetime.now().isoformat()
IsoStamp(t) == DateStamp(t) \o "T" \o ToString(t[2]) \o "." \o ToString(t[3])

\* the id of the member of that name, else the name with '_' for ' '
ManualPlayerId(member_data, player_name) ==
    IF \E id \in DOMAIN member_data : member_data[id].name = player_name
    THEN CHOOSE id \in DOMAIN member_data : member_data[id].name = player_name
    ELSE ReplaceSpaces(player_name)

\* f"MANUAL_{fine_type_id.upper()}_{current_time[:10].replace('-', '')}_{player_id}"
ManualFineId(fine_type_id, player_id, t) ==
    "MANUAL_" \o Upper(fine_type_id) \o "_" \o DateStamp(t) \o "_" \o player_id

ManualFine(fine_type_id, player_id, player_name, custom_reason, t) ==
    [player_id |-> player_id, player_name |-> player_name,
     event_id |-> "MANUAL_" \o fine_type_id \o "_" \o IsoStamp(t),
     event_name |-> IF custom_reason # ""
                    THEN manual_fine_types[fine_type_id].name \o " - " \o custom_reason
                    ELSE manual_fine_types[fine_type_id].name,
     event_date |-> t, fine_type |-> "manual", fine_subtype |-> fine_type_id,
     fine_amount |-> manual_fine_types[fine_type_id].amount, paid |-> FALSE,
     created_date |-> t, manual_fine |-> TRUE,
     description |-> manual_fine_types[fine_type_id].description]

\* the loop of assign_bulk_manual_fines: fines_data[fine_id] = {...} for
\* every selected player
RECURSIVE assign_bulk_manual_fines(_, _, _, _, _, _)
assign_bulk_manual_fines(fines_data, fine_type_id, player_names, custom_reason, member_data, t) ==
    IF player_names = <<>> THEN fines_data
    ELSE LET player_name == Head(player_names)
             player_id == ManualPlayerId(member_data, player_name)
         IN  assign_bulk_manual_fines(
                Put(fines_data, ManualFineId(fine_type_id, player_id, t),
                    ManualFine(fine_type_id, player_id, player_name, custom_reason, t)),
                fine_type_id, Tail(player_names), custom_reason, member_data, t)

(***************************************************************************)
(* The operations on the fine ledger.  The session's calculator writes its *)
(* own fines_data to the file; sync_data and assign_bulk_manual_fines read *)
(* the file themselves.                                                    *)
(***************************************************************************)
MaxFines == 2

Member1 == [id |-> "M1", firstName |-> "Ann", lastName |-> "Lee"]
Member2 == [id |-> "M2", firstName |-> "Bo", lastName |-> "Dam"]

MemberInputs == {<<Member1, Member2>>}

Event(id, heading, start, declined, unanswered, accepted) ==
    [id |-> id, heading |-> heading, startTimestamp |-> start,
     declinedIds |-> declined, unansweredIds |-> unanswered, acceptedIds |-> accepted]

EventInputs ==
    {<<Event("E1", "Training", <<2025, 10, 2>>, {"M1"}, {}, {"M2"})>>,
     <<Event("E1", "Training", <<2025, 10, 2>>, {}, {"M1", "M2"}, {})>>,
     <<Event("E0", "Kamp", <<2025, 9, 29>>, {"M1"}, {}, {"M2"}),
       Event("E2", "Kamp", <<2025, 9, 30>>, {"M2"}, {}, {"M1"})>>}

\* what a fetch gives: the list, or an exception inside the try of
\* get_team_events / get_team_members
Fetches(values) == {[kind |-> "ok", value |-> v] : v \in values} \cup {[kind |-> "failed"]}

\* return events or [] / return group.get('members', []); [] on an exception
Fetched(fetch) == IF fetch.kind = "ok" THEN fetch.value ELSE <<>>

\* open('member_data.json', 'w') succeeds or raises OSError
MemberWriteOutcomes == {"written", "raises"}

UnknownFineKey == "no_such_fine"

SelectedPlayersInputs == {<<"Ann Lee">>}

MemberDataInputs == {[id \in {} |-> [name |-> ""]], [id \in {"M1"} |-> [name |-> "Ann Lee"]]}

LosingPlayersInputs == {<<"A">>}

\* st.number_input(min_value=0, step=25)
AmountInputs == {0}

SessionKept == UNCHANGED <<selected_players, generated_teams, team_balance_info,
                           pending_match_id>>

\* save_fines_data of the session's calculator, which holds ledger
SaveSession(ledger, op, args) ==
    \E w \in WriteOutcomes :
        /\ finesFile' = Written(ledger, w)
        /\ IF w = "written"
           THEN /\ fines_calculator' = ledger
                /\ ret' = Returned(op, args, None)
                /\ SessionKept
           ELSE /\ SessionLost
                /\ ret' = Interrupted(op, args)

\* initialize_fines_calculator()
InitializeFinesCalculator ==
    /\ fines_calculator' = initialize_fines_calculator(fines_calculator, finesFile)
    /\ ret' = Returned("load_fines_data", <<>>, None)
    /\ UNCHANGED <<matchFile, finesFile, selected_players, generated_teams,
                   team_balance_info, pending_match_id, now>>
    /\ UNCHANGED player_stats

\* sync_data_wrapper: sync_data and, when it succeeded, a new calculator
SyncData(events_fetch, members_fetch, member_write) ==
    LET events == Fetched(events_fetch)
        members == Fetched(members_fetch)
        ledger == update_fines_for_events(load_fines_data(finesFile), events, members, now)
        args == [events |-> events_fetch, members |-> members_fetch]
    IN  /\ Cardinality(DOMAIN ledger) <= MaxFines
        /\ IF member_write = "raises"
           THEN /\ ret' = Returned("sync_data", args,
                                   <<FALSE, "Error syncing data: member_data.json">>)
                /\ UNCHANGED <<finesFile, fines_calculator>>
                /\ SessionKept
           ELSE \E w \in WriteOutcomes :
                 /\ finesFile' = Written(ledger, w)
                 /\ IF w = "written"
                    THEN /\ fines_calculator' = ledger
                         /\ ret' = Returned("sync_data", args,
                                <<TRUE, "Synced " \o ToString(Len(events)) \o " events and "
                                        \o ToString(Len(members)) \o " members">>)
                         /\ SessionKept
                    ELSE /\ SessionLost
                         /\ ret' = Interrupted("sync_data", args)
        /\ UNCHANGED <<matchFile, now>>
    /\ UNCHANGED player_stats

\* fines_calculator.mark_fine_paid(fine_key)
MarkFinePaid(fine_key) ==
    LET calculator == initialize_fines_calculator(fines_calculator, finesFile)
    IN  /\ IF fine_key \in DOMAIN calculator
           THEN SaveSession(mark_fine_paid(calculator, fine_key, now),
                            "mark_fine_paid", fine_key)
           ELSE /\ fines_calculator' = calculator
                /\ ret' = Returned("mark_fine_paid", fine_key, None)
                /\ UNCHANGED finesFile
                /\ SessionKept
        /\ UNCHANGED <<matchFile, now>>
    /\ UNCHANGED player_stats

\* the "Betalt" checkbox of a paid fine, unticked
MarkFineUnpaid(fine_key) ==
    LET calculator == initialize_fines_calculator(fines_calculator, finesFile)
    IN  /\ fine_key \in DOMAIN calculator
        /\ calculator[fine_key].paid
        /\ SaveSession(mark_fine_unpaid(calculator, fine_key), "mark_fine_unpaid", fine_key)
        /\ UNCHANGED <<matchFile, now>>
    /\ UNCHANGED player_stats

\* the amount field of a fine, changed
SetFineAmount(fine_key, new_amount) ==
    LET calculator == initialize_fines_calculator(fines_calculator, finesFile)
    IN  /\ fine_key \in DOMAIN calculator
        /\ new_amount # calculator[fine_key].fine_amount
        /\ SaveSession(set_fine_amount(calculator, fine_key, new_amount),
                       "set_fine_amount", <<fine_key, new_amount>>)
        /\ UNCHANGED <<matchFile, now>>
    /\ UNCHANGED player_stats

\* fines_calculator.remove_fine(fine_key)
RemoveFine(fine_key) ==
    LET calculator == initialize_fines_calculator(fines_calculator, finesFile)
    IN  /\ IF fine_key \in DOMAIN calculator
           THEN SaveSession(remove_fine(calculator, fine_key), "remove_fine", fine_key)
           ELSE /\ fines_calculator' = calculator
                /\ ret' = Returned("remove_fine", fine_key, None)
                /\ UNCHANGED finesFile
                /\ SessionKept
        /\ UNCHANGED <<matchFile, now>>
    /\ UNCHANGED player_stats

\* add_training_fines_from_history(losing_players, reason)
AddTrainingFinesFromHistory(losing_players, reason) ==
    LET calculator == initialize_fines_calculator(fines_calculator, finesFile)
        ledger == add_training_fines(calculator, losing_players, reason, now)
    IN  /\ Cardinality(DOMAIN ledger) <= MaxFines
        /\ SaveSession(ledger, "add_training_fines", <<losing_players, reason>>)
        /\ UNCHANGED <<matchFile, now>>
    /\ UNCHANGED player_stats

\* assign_bulk_manual_fines(fine_type_id, player_names, custom_reason,
\* member_data): json.load of a file that is not JSON raises
AssignBulkManualFines(fine_type_id, player_names, custom_reason, member_data) ==
    LET args == <<fine_type_id, player_names, custom_reason, member_data>>
        fines_data == assign_bulk_manual_fines(
                          IF finesFile.state = "ok" THEN finesFile.content ELSE EmptyLedger,
                          fine_type_id, player_names, custom_reason, member_data, now)
    IN  /\ IF finesFile.state = "corrupt"
           THEN /\ ret' = Raised("assign_bulk_manual_fines", args)
                /\ UNCHANGED <<finesFile, fines_calculator>>
                /\ SessionKept
           ELSE /\ Cardinality(DOMAIN fines_data) <= MaxFines
                /\ \E w \in WriteOutcomes :
                     /\ finesFile' = Written(fines_data, w)
                     /\ IF w = "written"
                        THEN /\ fines_calculator' = fines_data
                             /\ ret' = Returned("assign_bulk_manual_fines", args, None)
                             /\ SessionKept
                        ELSE /\ SessionLost
                             /\ ret' = Interrupted("assign_bulk_manual_fines", args)
        /\ UNCHANGED <<matchFile, now>>
    /\ UNCHANGED player_stats

\* the clock of the ledger operations, read at whole seconds: no key of the
\* ledger holds the microseconds
TickSecond ==
    /\ \E t \in Times : t[3] = 0 /\ t # now /\ TimeLeq(now, t) /\ now' = t
    /\ UNCHANGED <<matchFile, finesFile, fines_calculator, selected_players,
                   generated_teams, team_balance_info, pending_match_id, ret>>
    /\ UNCHANGED player_stats

\* the statistics overview of the admin panel: get_fines_summary of the
\* session's calculator
GetFinesSummary ==
    LET calculator == initialize_fines_calculator(fines_calculator, finesFile)
    IN  /\ fines_calculator' = calculator
        /\ ret' = Returned("get_fines_summary", <<>>, get_fines_summary(calculator))
        /\ UNCHANGED <<matchFile, finesFile, now>>
        /\ SessionKept
    /\ UNCHANGED player_stats

\* the fines overview and the dashboard: processed_fines_data of the
\* session's calculator
ProcessedFinesData ==
    LET calculator == initialize_fines_calculator(fines_calculator, finesFile)
    IN  /\ fines_calculator' = calculator
        /\ ret' = Returned("processed_fines_data", <<>>, processed_fines_data(calculator))
        /\ UNCHANGED <<matchFile, finesFile, now>>
        /\ SessionKept
    /\ UNCHANGED player_stats

FineKeyInputs ==
    DOMAIN initialize_fines_calculator(fines_calculator, finesFile) \cup {UnknownFineKey}

InitLedger == InitMatch

NextLedger ==
    \/ TickSecond
    \/ InitializeFinesCalculator
    \/ \E e \in Fetches(EventInputs), m \in Fetches(MemberInputs),
          mw \in MemberWriteOutcomes : SyncData(e, m, mw)
    \/ \E k \in FineKeyInputs : MarkFinePaid(k)
    \/ \E k \in FineKeyInputs : MarkFineUnpaid(k)
    \/ \E k \in FineKeyInputs, a \in AmountInputs : SetFineAmount(k, a)
    \/ \E k \in FineKeyInputs : RemoveFine(k)
    \/ \E p \in LosingPlayersInputs : AddTrainingFinesFromHistory(p, WinReason(1))
    \/ \E p \in SelectedPlayersInputs, m \in MemberDataInputs :
          AssignBulkManualFines("late", p, "", m)
    \/ GetFinesSummary
    \/ ProcessedFinesData

SpecLedger == InitLedger /\ [][NextLedger]_vars

(***************************************************************************)
(* A long-lived IntelligentTeamGenerator next to the match store: its      *)
(* statistics are computed from the file when self.player_stats is empty.  *)
(***************************************************************************)
\* if not self.player_stats: self.calculate_player_statistics()
EnsureStatistics(stats, file) ==
    IF DOMAIN stats = {} THEN calculate_player_statistics(file) ELSE stats

\* IntelligentTeamGenerator()
NewGenerator ==
    /\ player_stats' = <<>>
    /\ ret' = Returned("IntelligentTeamGenerator", <<>>, None)
    /\ UNCHANGED <<matchFile, finesFile, fines_calculator, selected_players,
                   generated_teams, team_balance_info, pending_match_id, now>>

\* generator.calculate_player_statistics()
CalculatePlayerStatistics ==
    /\ player_stats' = calculate_player_statistics(matchFile)
    /\ ret' = Returned("calculate_player_statistics", <<>>,
                       calculate_player_statistics(matchFile))
    /\ UNCHANGED <<matchFile, finesFile, fines_calculator, selected_players,
                   generated_teams, team_balance_info, pending_match_id, now>>

\* generator.get_player_win_rate(player)
GetPlayerWinRate(player) ==
    /\ player_stats' = EnsureStatistics(player_stats, matchFile)
    /\ ret' = Returned("get_player_win_rate", player,
                       get_player_win_rate(EnsureStatistics(player_stats, matchFile), player))
    /\ UNCHANGED <<matchFile, finesFile, fines_calculator, selected_players,
                   generated_teams, team_balance_info, pending_match_id, now>>

NextStats ==
    \/ NewGenerator
    \/ CalculatePlayerStatistics
    \/ \E p \in Players : GetPlayerWinRate(p)
    \/ \E t \in TeamsInputs : SavePendingMatch(t[1], t[2])
    \/ \E t \in TeamsInputs, w \in {1, 2} : SaveTrainingMatch(t[1], t[2], w)
    \/ \E id \in MatchIdsOf(matchFile) \cup {UnknownMatchId}, w \in {1, 2} :
          CompletePendingMatch(id, w)

SpecStats == InitMatch /\ [][NextStats]_vars

(***************************************************************************)
(* Training matches and their fines: the teams generated for A, B, C, D    *)
(* are confirmed as a pending match and given a result in the team         *)
(* selector or in the history view.                                        *)
(***************************************************************************)
InitTraining ==
    /\ matchFile = MissingFile
    /\ finesFile = MissingFile
    /\ fines_calculator = NoValue
    /\ selected_players = <<"A", "B", "C", "D">>
    /\ generated_teams \in
          {StoreGeneratedTeams(selected_players, smart) :
              smart \in {smart \in generate_smart_teams(matchFile, selected_players, "optimal") :
                            "A" \in SeqToSet(smart[1]) /\ "B" \in SeqToSet(smart[1])}}
    /\ team_balance_info = get_team_balance_info(<<>>, generated_teams.team1,
                                                 generated_teams.team2)
    /\ pending_match_id = None
    /\ now = T0
    /\ ret = NoRet
    /\ player_stats = <<>>

NextTraining ==
    \/ TickSecond
    \/ ConfirmTeamsCallback
    \/ \E winning_team \in {1, 2} : TeamWinsCallback(winning_team)
    \/ \E i \in 1..MaxMatches, winning_team \in {1, 2} : HistoryTeamWins(i, winning_team)

SpecTraining == InitTraining /\ [][NextTraining]_vars

(***************************************************************************)
(* The attendance fines of one event: calculate_event_fines and            *)
(* update_fines_for_events applied once to an event drawn from titles,     *)
(* dates around the cutoff and around the clock, and the responses of two  *)
(* members and of an id outside the roster.  The ledger starts empty or    *)
(* with a paid fine of M1 for E1.                                          *)
(***************************************************************************)
EventSpace ==
    {Event("E1", heading, start,
           {id \in {"M1", "M2"} : answer[id] = "declined"},
           {id \in {"M1", "M2"} : answer[id] = "unanswered"} \cup stranger,
           {id \in {"M1", "M2"} : answer[id] = "accepted"}) :
        heading \in {"Training", "Kamp", "Home GAME"},
        start \in {<<2025, 9, 29>>, <<2025, 9, 30>>, <<2025, 10, 1>>, <<2025, 10, 2>>,
                   <<2025, 10, 3>>},
        answer \in [{"M1", "M2"} -> {"declined", "unanswered", "accepted"}],
        stranger \in {{}, {"X9"}}}

\* calculate_event_fines(event, members)
CalculateEventFines(event, members) ==
    /\ ret' = Returned("calculate_event_fines", <<event, members>>,
                       calculate_event_fines(event, members, now))
    /\ UNCHANGED <<matchFile, finesFile, fines_calculator, selected_players,
                   generated_teams, team_balance_info, pending_match_id, now>>
    /\ UNCHANGED player_stats

\* FinesCalculator().update_fines_for_events(events, members), its
\* save_fines_data included
UpdateFinesForEvents(events, members) ==
    LET ledger == update_fines_for_events(load_fines_data(finesFile), events, members, now)
    IN  /\ \E w \in WriteOutcomes :
              /\ finesFile' = Written(ledger, w)
              /\ IF w = "written"
                 THEN /\ ret' = Returned("update_fines_for_events", <<events, members>>, None)
                      /\ UNCHANGED fines_calculator
                      /\ SessionKept
                 ELSE /\ SessionLost
                      /\ ret' = Interrupted("update_fines_for_events", <<events, members>>)
        /\ UNCHANGED <<matchFile, now>>
    /\ UNCHANGED player_stats

InitEventFines ==
    /\ matchFile = MissingFile
    /\ finesFile \in {MissingFile,
                      JsonFile(mark_fine_paid(
                          update_fines_for_events(EmptyLedger,
                              <<Event("E1", "Training", <<2025, 10, 2>>, {"M1"}, {}, {"M2"})>>,
                              <<Member1, Member2>>, T0),
                          FineKey("E1", "M1"), T0))}
    /\ fines_calculator = NoValue
    /\ selected_players = <<>>
    /\ generated_teams = NoValue
    /\ team_balance_info = NoValue
    /\ pending_match_id = None
    /\ now = T0
    /\ ret = NoRet
    /\ player_stats = <<>>

\* one call in a behaviour, at any reading of the clock
NextEventFines ==
    \/ Tick
    \/ ret = NoRet /\ \E event \in EventSpace, members \in MemberInputs :
                        CalculateEventFines(event, members)
    \/ ret = NoRet /\ \E event \in EventSpace, members \in MemberInputs :
                        UpdateFinesForEvents(<<event>>, members)

SpecEventFines == InitEventFines /\ [][NextEventFines]_vars

(***************************************************************************)
(* Team balancing on longer histories: fixed histories in which players    *)
(* have computed win rates of 1/2, 1, 0 and 6/11, and players outside the  *)
(* selection ("E", "F") have played.                                       *)
(***************************************************************************)
CompletedMatch(team1, team2, winning_team) ==
    [date |-> T0, team1 |-> team1, team2 |-> team2, winning_team |-> winning_team,
     created_at |-> T0, match_id |-> MatchId("training", T0), status |-> "completed"]

\* E and F beat each other once, A beat B, and C against D is still pending
MixedHistory ==
    <<CompletedMatch(<<"E">>, <<"F">>, 1), CompletedMatch(<<"E">>, <<"F">>, 2),
      CompletedMatch(<<"A">>, <<"B">>, 1),
      [CompletedMatch(<<"C">>, <<"D">>, NoTeam) EXCEPT
         !.status = "pending", !.match_id = MatchId("pending", T0)]>>

\* A and C played eleven matches together against E and won six of them
CloseHistory ==
    [i \in 1..11 |-> CompletedMatch(<<"A", "C">>, <<"E">>, IF i <= 6 THEN 1 ELSE 2)]

BalanceHistories == {<<>>, MixedHistory, CloseHistory}

InitBalance ==
    /\ matchFile \in {JsonFile(h) : h \in BalanceHistories}
    /\ finesFile = MissingFile
    /\ fines_calculator = NoValue
    /\ selected_players \in {InOrder(S, 1) : S \in SUBSET Players}
    /\ generated_teams = NoValue
    /\ team_balance_info = NoValue
    /\ pending_match_id = None
    /\ now = T0
    /\ ret = NoRet
    /\ player_stats = <<>>

SpecBalance == InitBalance /\ [][NextGenerator]_vars

(***************************************************************************)
(* C1, C2: team sizes and the partition of the selected players.           *)
(***************************************************************************)
\* C1: for 2 <= n <= 50 distinct players and either strategy,
\* generate_smart_teams returns two teams of n // 2 players each.
C1_EqualTeamSizes ==
    (ret.op = "generate_smart_teams" /\ Len(ret.args[1]) >= 2)
        => /\ Len(ret.val[1]) = Len(ret.args[1]) \div 2
           /\ Len(ret.val[2]) = Len(ret.args[1]) \div 2

\* C2: after generate_teams_callback on n >= 2 selected players, team1,
\* team2 and remaining are pairwise disjoint, together they are exactly the
\* selected players, and remaining holds n % 2 players.
C2_TeamsPartitionPlayers ==
    (ret.op = "generate_teams_callback" /\ generated_teams # NoValue)
        => LET t1 == generated_teams.team1
               t2 == generated_teams.team2
               r  == generated_teams.remaining
           IN  /\ SeqToSet(t1) \cap SeqToSet(t2) = {}
               /\ SeqToSet(t1) \cap SeqToSet(r) = {}
               /\ SeqToSet(t2) \cap SeqToSet(r) = {}
               /\ SeqToSet(t1) \cup SeqToSet(t2) \cup SeqToSet(r) = SeqToSet(selected_players)
               /\ Len(t1) + Len(t2) + Len(r) = Len(selected_players)
               /\ Len(r) = Len(selected_players) % 2

(***************************************************************************)
(* C3, C4: deleting and completing matches.                                *)
(***************************************************************************)
\* a step of the named operation that returned (it was not interrupted)
StepOf(op) ==
    /\ vars' # vars
    /\ now' = now
    /\ ret'.op = op
    /\ "val" \in DOMAIN ret'

HasMatch(matches, match_id, status) ==
    \E i \in DOMAIN matches : matches[i].match_id = match_id /\ matches[i].status = status

\* C3: delete_pending_match called with the id of a completed match returns
\* False and keeps the record; called on a pending match it returns True
\* and removes exactly that record; a call that finds no match returns
\* False and changes nothing.
C3_DeleteOnlyWhilePending ==
    [][StepOf("delete_pending_match") =>
        LET matches == load_training_matches(matchFile)
            match_id == ret'.args
        IN  /\ (HasMatch(matches, match_id, "completed")
                    /\ ~HasMatch(matches, match_id, "pending"))
                => (ret'.val = FALSE /\ matchFile' = matchFile)
            /\ HasMatch(matches, match_id, "pending")
                => /\ ret'.val = TRUE
                   /\ matchFile'.state = "ok"
                   /\ \E i \in DOMAIN matches :
                        /\ matches[i].match_id = match_id
                        /\ matches[i].status = "pending"
                        /\ matchFile'.content =
                               SubSeq(matches, 1, i - 1) \o SubSeq(matches, i + 1, Len(matches))
            /\ (\A i \in DOMAIN matches : matches[i].match_id # match_id)
                => (ret'.val = FALSE /\ matchFile' = matchFile)]_vars

\* C4: complete_pending_match on a pending match returns True and stores
\* status completed with the given winning team; a later call on the id of
\* a completed match returns False and changes nothing; no match goes from
\* completed back to pending.
C4_CompleteExactlyOnce ==
    [][/\ StepOf("complete_pending_match") =>
            LET matches == load_training_matches(matchFile)
                match_id == ret'.args[1]
                i == FirstPending(matches, match_id)
            IN  /\ i # 0 => /\ ret'.val = TRUE
                            /\ matchFile'.state = "ok"
                            /\ matchFile'.content[i].status = "completed"
                            /\ matchFile'.content[i].winning_team = ret'.args[2]
                /\ HasMatch(matches, match_id, "completed")
                        => (ret'.val = FALSE /\ matchFile' = matchFile)
       /\ ~StepOf("save_pending_match") =>
            \A j \in DOMAIN load_training_matches(matchFile') :
                load_training_matches(matchFile')[j].status = "pending"
                    => \E i \in DOMAIN load_training_matches(matchFile) :
                          load_training_matches(matchFile)[i] = load_training_matches(matchFile')[j]
      ]_vars

(***************************************************************************)
(* C5 .. C10: the fine ledger, the sync and the files.                     *)
(***************************************************************************)
InsertOps == {"sync_data", "add_training_fines", "assign_bulk_manual_fines"}

\* the ledger an operation starts from: the session's calculator for the
\* training fines, the file for the sync and the manual fines
LedgerBefore(op) ==
    IF op = "add_training_fines"
    THEN initialize_fines_calculator(fines_calculator, finesFile)
    ELSE load_fines_data(finesFile)

\* C5: every path that inserts fines (the attendance sync, the training-loss
\* fines, the bulk manual fines) leaves every record that already exists
\* under one of its keys unchanged: the old record is never replaced.
C5_InsertKeepsExistingRecord ==
    [][\A op \in InsertOps :
        StepOf(op) =>
            \A k \in DOMAIN LedgerBefore(op) :
                /\ k \in DOMAIN load_fines_data(finesFile')
                /\ load_fines_data(finesFile')[k] = LedgerBefore(op)[k]]_vars

\* C6: a sync pass leaves every record that was in the ledger exactly as it
\* was (paid flag, paid_date and edited amount included), and running
\* update_fines_for_events again with the same events and members, at any
\* time, gives the same ledger.
C6_SyncIdempotent ==
    [][(StepOf("sync_data") /\ ret'.val[1]) =>
        LET before == load_fines_data(finesFile)
            after == load_fines_data(finesFile')
            events == Fetched(ret'.args.events)
            members == Fetched(ret'.args.members)
        IN  /\ \A k \in DOMAIN before : k \in DOMAIN after /\ after[k] = before[k]
            /\ \A t \in Times : update_fines_for_events(after, events, members, t) = after
            /\ (ret.op = "sync_data" /\ "val" \in DOMAIN ret /\ ret.val[1]
                    /\ ret.args = ret'.args)
                => finesFile' = finesFile]_vars

\* a sync has succeeded on an event for which a player is fined, and the
\* fine of that player, paid before the sync, is still in the file as paid
C6_Witness ==
    /\ ret.op = "sync_data"
    /\ "val" \in DOMAIN ret
    /\ ret.val[1]
    /\ finesFile.state = "ok"
    /\ \E i \in DOMAIN Fetched(ret.args.events) :
        LET event == Fetched(ret.args.events)[i]
        IN  /\ ~SkipsEvent(event)
            /\ \E p \in event.declinedIds \cup event.unansweredIds :
                /\ FineKey(event.id, p) \in DOMAIN finesFile.content
                /\ finesFile.content[FineKey(event.id, p)].paid
            /\ \E p \in event.declinedIds \cup event.unansweredIds :
                /\ FineKey(event.id, p) \in DOMAIN finesFile.content
                /\ ~finesFile.content[FineKey(event.id, p)].paid
                /\ finesFile.content[FineKey(event.id, p)].created_date = now

\* C7: a sync in which the fetch of the events or of the members failed
\* returns (False, message), never (True, ...).
C7_FetchFailureReported ==
    (/\ ret.op = "sync_data"
     /\ "val" \in DOMAIN ret
     /\ (ret.args.events.kind = "failed" \/ ret.args.members.kind = "failed"))
        => ret.val[1] = FALSE

\* C8: a sync in which a fetch failed, or which failed at a later step,
\* leaves the ledger of the fines file and the matches of the match file
\* as they were: no fine is added, changed or removed.
C8_FailedSyncChangesNothing ==
    [][(/\ StepOf("sync_data")
        /\ \/ ret'.args.events.kind = "failed"
           \/ ret'.args.members.kind = "failed"
           \/ ret'.val[1] = FALSE)
        => /\ load_fines_data(finesFile') = load_fines_data(finesFile)
           /\ load_training_matches(matchFile') = load_training_matches(matchFile)]_vars

\* C9: the fines file and the match file never hold a partially written
\* document: after every save, an interrupted one included, a file holds
\* the complete previous or the complete new collection.
C9_NoPartialFile ==
    /\ finesFile.state # "corrupt"
    /\ matchFile.state # "corrupt"

CoreOps ==
    {"load_fines_data", "save_pending_match", "save_training_match",
     "complete_pending_match", "delete_pending_match", "assign_bulk_manual_fines",
     "generate_smart_teams"}

\* C10: no core operation that reads a persisted file raises, whatever the
\* state of the file: loading the ledger, reading the match history,
\* creating, completing and deleting a match, assigning manual fines.
C10_NoOperationRaises ==
    ret.op \in CoreOps => ~ret.raised

(***************************************************************************)
(* C11 .. C13: unknown keys, match ids and the status of a match.          *)
(***************************************************************************)
\* a step in which the named operation was called with the given arguments
CallOf(op, args) ==
    /\ vars' # vars
    /\ now' = now
    /\ ret'.op = op
    /\ ret'.args = args

\* what a successful call of the operation returns
SuccessValue(op) ==
    IF op \in {"complete_pending_match", "delete_pending_match"} THEN TRUE ELSE None

\* C11: complete_pending_match and delete_pending_match with an unknown
\* match id, and mark_fine_paid and remove_fine with an unknown fine key,
\* raise nothing, leave the files as they were and return a value that
\* differs from the value of a successful call.
C11_UnknownKeyReportsFailure ==
    [][/\ \A w \in {1, 2} :
            CallOf("complete_pending_match", <<UnknownMatchId, w>>)
                => /\ ~ret'.raised
                   /\ "val" \in DOMAIN ret'
                   /\ ret'.val # SuccessValue("complete_pending_match")
                   /\ matchFile' = matchFile /\ finesFile' = finesFile
       /\ CallOf("delete_pending_match", UnknownMatchId)
                => /\ ~ret'.raised
                   /\ "val" \in DOMAIN ret'
                   /\ ret'.val # SuccessValue("delete_pending_match")
                   /\ matchFile' = matchFile /\ finesFile' = finesFile
       /\ \A op \in {"mark_fine_paid", "remove_fine"} :
            CallOf(op, UnknownFineKey)
                => /\ ~ret'.raised
                   /\ "val" \in DOMAIN ret'
                   /\ ret'.val # SuccessValue(op)
                   /\ matchFile' = matchFile /\ finesFile' = finesFile]_vars

\* C12: no match store holds two records with the same match_id, however
\* quickly one creation follows another.
C12_MatchIdsUnique ==
    \A i, j \in DOMAIN load_training_matches(matchFile) :
        load_training_matches(matchFile)[i].match_id
            = load_training_matches(matchFile)[j].match_id => i = j

\* C13: in every state of the match store each record is pending with no
\* winning team, or completed with winning team 1 or 2.
C13_StatusAgreesWithWinner ==
    \A i \in DOMAIN load_training_matches(matchFile) :
        LET match == load_training_matches(matchFile)[i]
        IN  \/ match.status = "pending" /\ match.winning_team = NoTeam
            \/ match.status = "completed" /\ match.winning_team \in {1, 2}

\* a pending match has just been completed, next to one that is pending
C13_Witness ==
    /\ ret.op = "complete_pending_match"
    /\ "val" \in DOMAIN ret
    /\ ret.val = TRUE
    /\ HasMatch(load_training_matches(matchFile), ret.args[1], "completed")
    /\ \E i \in DOMAIN load_training_matches(matchFile) :
          load_training_matches(matchFile)[i].status = "pending"

(***************************************************************************)
(* C14 .. C16: player statistics.                                          *)
(***************************************************************************)
\* the completed matches of the file in which the player is on the team
\* named by winning_team (won = TRUE) or on the other team (won = FALSE)
CompletedMatchesOf(player, won) ==
    {i \in DOMAIN load_training_matches(matchFile) :
        LET match == load_training_matches(matchFile)[i]
        IN  /\ match.status = "completed"
            /\ \/ match.winning_team = 1
                    /\ player \in SeqToSet(IF won THEN match.team1 ELSE match.team2)
               \/ match.winning_team = 2
                    /\ player \in SeqToSet(IF won THEN match.team2 ELSE match.team1)}

\* C14: calculate_player_statistics gives every player of a completed match
\* wins = completed matches won, losses = completed matches lost,
\* matches = wins + losses and win_rate = wins / matches in [0, 1]; a
\* player of no completed match has no statistics.
C14_StatisticsCountCompletedMatches ==
    ret.op = "calculate_player_statistics" =>
        \A p \in SeqToSet(Names) :
            LET wins == Cardinality(CompletedMatchesOf(p, TRUE))
                losses == Cardinality(CompletedMatchesOf(p, FALSE))
            IN  IF wins + losses = 0 THEN p \notin DOMAIN ret.val
                ELSE /\ p \in DOMAIN ret.val
                     /\ ret.val[p].wins = wins
                     /\ ret.val[p].losses = losses
                     /\ ret.val[p].matches = wins + losses
                     /\ ret.val[p].win_rate = Frac(wins, wins + losses)
                     /\ FLeq(Zero, ret.val[p].win_rate)
                     /\ FLeq(ret.val[p].win_rate, One)

\* the statistics were computed from a store that holds a completed and a
\* pending match, and a player has a win and a loss
C14_Witness ==
    /\ ret.op = "calculate_player_statistics"
    /\ \E i, j \in DOMAIN load_training_matches(matchFile) :
        /\ load_training_matches(matchFile)[i].status = "completed"
        /\ load_training_matches(matchFile)[j].status = "pending"
    /\ \E p \in DOMAIN ret.val : ret.val[p].losses = 1

\* C16: the win-rate query that follows the completion of a match, or the
\* saving of a completed match, answers from statistics that include that
\* match, on a new and on a used generator alike.
C16_StatisticsFollowTheStore ==
    [][(/\ ret.op \in {"complete_pending_match", "save_training_match"}
        /\ "val" \in DOMAIN ret
        /\ ret.val = TRUE
        /\ vars' # vars
        /\ ret'.op = "get_player_win_rate")
        => ret'.val = get_player_win_rate(calculate_player_statistics(matchFile),
                                          ret'.args)]_vars


(***************************************************************************)
(* C15: a player who appears in no completed match has win rate exactly    *)
(* 1/2, and the balancer treats that player like one whose computed win    *)
(* rate is 1/2: after a team generation, replacing a selected player       *)
(* without history by an unselected player with a computed rate of 1/2     *)
(* gives the same possible teams (up to the replaced name) with the same   *)
(* strengths.                                                              *)
(***************************************************************************)
C15_NewcomerCountsAsEven ==
    ret.op = "generate_smart_teams" =>
        LET players == ret.args[1]
            algorithm == ret.args[2]
            stats == calculate_player_statistics(matchFile)
            \* the selected players who appear in no completed match
            Newcomers ==
                {x \in SeqToSet(players) :
                    CompletedMatchesOf(x, TRUE) \cup CompletedMatchesOf(x, FALSE) = {}}
            \* the unselected players whose computed win rate is 1/2
            EvenRecords ==
                {y \in DOMAIN stats \ SeqToSet(players) :
                    stats[y].wins > 0 /\ stats[y].wins = stats[y].losses}
            ReplaceIn(team, x, y) ==
                [j \in DOMAIN team |-> IF team[j] = x THEN y ELSE team[j]]
            ReplaceStats(list, x, y) ==
                [j \in DOMAIN list |-> <<IF list[j][1] = x THEN y ELSE list[j][1], list[j][2]>>]
            \* what a result <<team1, team2, balance_info>> becomes when x is y
            ReplacedOutcome(smart, x, y) ==
                <<ReplaceIn(smart[1], x, y), ReplaceIn(smart[2], x, y),
                  [smart[3] EXCEPT
                     !.team1_players_stats = ReplaceStats(@, x, y),
                     !.team2_players_stats = ReplaceStats(@, x, y)]>>
        IN  \A x \in Newcomers :
              /\ get_player_win_rate(stats, x) = Frac(1, 2)
              /\ \A y \in EvenRecords :
                    /\ generate_smart_teams(matchFile, ReplaceIn(players, x, y), algorithm)
                         = {ReplacedOutcome(smart, x, y) :
                              smart \in generate_smart_teams(matchFile, players, algorithm)}
                    /\ ReplacedOutcome(ret.val, x, y)
                         \in generate_smart_teams(matchFile, ReplaceIn(players, x, y), algorithm)

\* a generation for A, B and the newcomers C and D, whose only match is
\* pending, while E, outside the selection, has one win and one loss: the
\* newcomers form one team
C15_Witness ==
    /\ ret.op = "generate_smart_teams"
    /\ ret.args[2] = "optimal"
    /\ Len(ret.args[1]) = 4
    /\ CompletedMatchesOf("C", TRUE) \cup CompletedMatchesOf("C", FALSE) = {}
    /\ \E i \in DOMAIN load_training_matches(matchFile) :
          /\ load_training_matches(matchFile)[i].status = "pending"
          /\ "C" \in SeqToSet(load_training_matches(matchFile)[i].team1)
    /\ Cardinality(CompletedMatchesOf("E", TRUE)) = 1
    /\ Cardinality(CompletedMatchesOf("E", FALSE)) = 1
    /\ get_player_win_rate(calculate_player_statistics(matchFile), "A") = One
    /\ SeqToSet(ret.val[1]) = {"C", "D"}
    /\ ret.val[3].strength_difference = Zero


(***************************************************************************)
(* C17: mark_fine_paid on an existing key sets paid and stamps paid_date   *)
(* and changes no other record and no other field; marking a fine unpaid   *)
(* clears paid and removes paid_date; in every reachable state, in the     *)
(* session's calculator and in the file, a record carries a paid_date if   *)
(* and only if it is paid.                                                 *)
(***************************************************************************)
PaidDateIffPaid(ledger) ==
    \A k \in DOMAIN ledger : ("paid_date" \in DOMAIN ledger[k]) <=> ledger[k].paid

C17_PaidDateIffPaid ==
    /\ [](PaidDateIffPaid(load_fines_data(finesFile))
            /\ PaidDateIffPaid(initialize_fines_calculator(fines_calculator, finesFile)))
    /\ [][LET before == initialize_fines_calculator(fines_calculator, finesFile)
              key == ret'.args
              SameButPaid(after) ==
                  /\ DOMAIN after = DOMAIN before
                  /\ \A k \in DOMAIN before \ {key} : after[k] = before[k]
                  /\ \A f \in DOMAIN before[key] \ {"paid", "paid_date"} :
                        f \in DOMAIN after[key] /\ after[key][f] = before[key][f]
          IN  /\ (StepOf("mark_fine_paid") /\ key \in DOMAIN before) =>
                    /\ SameButPaid(fines_calculator')
                    /\ fines_calculator'[key].paid
                    /\ "paid_date" \in DOMAIN fines_calculator'[key]
                    /\ fines_calculator'[key].paid_date = now
                    /\ load_fines_data(finesFile') = fines_calculator'
              /\ StepOf("mark_fine_unpaid") =>
                    /\ SameButPaid(fines_calculator')
                    /\ ~fines_calculator'[key].paid
                    /\ "paid_date" \notin DOMAIN fines_calculator'[key]
                    /\ load_fines_data(finesFile') = fines_calculator'
        ]_vars

\* a fine was marked unpaid while another fine stays paid
C17_Witness ==
    /\ ret.op = "mark_fine_unpaid"
    /\ "val" \in DOMAIN ret
    /\ fines_calculator # NoValue
    /\ ret.args \in DOMAIN fines_calculator
    /\ ~fines_calculator[ret.args].paid
    /\ \E k \in DOMAIN fines_calculator : fines_calculator[k].paid


(***************************************************************************)
(* C18: for players A, B, C, D with win rates A = B = 1 and C = D = 0 the  *)
(* optimal strategy returns, in every order of the candidate subsets, two  *)
(* teams with strength_difference 0: one strong and one weak player each.  *)
(***************************************************************************)
C18_OptimalBalancesStrongAndWeak ==
    LET stats == calculate_player_statistics(matchFile)
    IN  (/\ ret.op = "generate_smart_teams"
         /\ ret.args[2] = "optimal"
         /\ Len(ret.args[1]) = 4
         /\ SeqToSet(ret.args[1]) = {"A", "B", "C", "D"}
         /\ get_player_win_rate(stats, "A") = One
         /\ get_player_win_rate(stats, "B") = One
         /\ get_player_win_rate(stats, "C") = Zero
         /\ get_player_win_rate(stats, "D") = Zero)
        => /\ ret.val[3].strength_difference = Zero
           /\ Cardinality(SeqToSet(ret.val[1]) \cap {"A", "B"}) = 1
           /\ Cardinality(SeqToSet(ret.val[1]) \cap {"C", "D"}) = 1
           /\ Cardinality(SeqToSet(ret.val[2]) \cap {"A", "B"}) = 1
           /\ Cardinality(SeqToSet(ret.val[2]) \cap {"C", "D"}) = 1

\* the optimal strategy ran on A, B, C, D after A and B beat C and D, and
\* put A with D
C18_Witness ==
    /\ ret.op = "generate_smart_teams"
    /\ ret.args = <<<<"A", "B", "C", "D">>, "optimal">>
    /\ get_player_win_rate(calculate_player_statistics(matchFile), "A") = One
    /\ get_player_win_rate(calculate_player_statistics(matchFile), "B") = One
    /\ get_player_win_rate(calculate_player_statistics(matchFile), "C") = Zero
    /\ get_player_win_rate(calculate_player_statistics(matchFile), "D") = Zero
    /\ SeqToSet(ret.val[1]) = {"A", "D"}


(***************************************************************************)
(* C19: for at most 16 players the optimal strategy never returns teams    *)
(* with a strength_difference worse than what the greedy strategy finds    *)
(* for the same players and history.  The formula asks the least that this *)
(* can mean: some result of greedy is no better than the result optimal    *)
(* returned.  Where it fails, every result of greedy is strictly better,   *)
(* its best and its mean included.                                         *)
(***************************************************************************)
C19_OptimalNoWorseThanGreedy ==
    (/\ ret.op = "generate_smart_teams"
     /\ ret.args[2] = "optimal"
     /\ Len(ret.args[1]) <= GreedyAbove)
    => \E greedy \in generate_smart_teams(matchFile, ret.args[1], "greedy") :
          FLeq(ret.val[3].strength_difference, greedy[3].strength_difference)


(***************************************************************************)
(* C20: get_fines_summary is derived from the stored records alone:        *)
(* total_fines is the number of records, total_amount the sum of their     *)
(* amounts, paid_fines the number of paid records and unpaid_amount the    *)
(* sum of the amounts of the unpaid records, after any sequence of insert, *)
(* mark paid, mark unpaid, amount edit and remove; one unpaid fine of 50   *)
(* and one paid fine of 100 give 2, 150, 1, 50; the rollups per player     *)
(* cover the players of the records and sum to the totals.                 *)
(***************************************************************************)
C20_SummaryDerivedFromRecords ==
    ret.op = "get_fines_summary" =>
        LET ledger == fines_calculator
            summary == ret.val
            Fields == {"total_fines", "total_amount", "paid_fines", "unpaid_amount"}
            \* the sum of the amounts of the records of the keys S
            Amount[S \in SUBSET DOMAIN ledger] ==
                IF S = {} THEN 0
                ELSE LET k == CHOOSE k \in S : TRUE
                     IN  ledger[k].fine_amount + Amount[S \ {k}]
            Paid == {k \in DOMAIN ledger : ledger[k].paid}
            \* the sum of one field of the rollups of the players P
            Rollup[P \in SUBSET DOMAIN summary.player_totals, f \in Fields] ==
                IF P = {} THEN 0
                ELSE LET p == CHOOSE p \in P : TRUE
                     IN  summary.player_totals[p][f] + Rollup[P \ {p}, f]
        IN  /\ summary.total_fines = Cardinality(DOMAIN ledger)
            /\ summary.total_amount = Amount[DOMAIN ledger]
            /\ summary.paid_fines = Cardinality(Paid)
            /\ summary.unpaid_amount = Amount[DOMAIN ledger \ Paid]
            /\ DOMAIN summary.player_totals = {ledger[k].player_name : k \in DOMAIN ledger}
            /\ \A f \in Fields : Rollup[DOMAIN summary.player_totals, f] = summary[f]
            /\ (\E a, b \in DOMAIN ledger :
                    /\ DOMAIN ledger = {a, b}
                    /\ a # b
                    /\ ledger[a].fine_amount = 50 /\ ~ledger[a].paid
                    /\ ledger[b].fine_amount = 100 /\ ledger[b].paid)
                => /\ summary.total_fines = 2
                   /\ summary.total_amount = 150
                   /\ summary.paid_fines = 1
                   /\ summary.unpaid_amount = 50

\* the summary of an unpaid fine of 50 and a paid fine of 100
C20_Witness ==
    /\ ret.op = "get_fines_summary"
    /\ \E a, b \in DOMAIN fines_calculator :
          /\ DOMAIN fines_calculator = {a, b}
          /\ fines_calculator[a].fine_amount = 50 /\ ~fines_calculator[a].paid
          /\ fines_calculator[b].fine_amount = 100 /\ fines_calculator[b].paid
    /\ ret.val.total_amount = 150
    /\ ret.val.unpaid_amount = 50


(***************************************************************************)
(* C21: update_fines_for_events adds no record for an event that starts    *)
(* before the cutoff date, whatever its responses; an event of the cutoff  *)
(* date or later is processed: each of its declined or unanswered players  *)
(* has a record afterwards.                                                *)
(***************************************************************************)
C21_CutoffFilter ==
    [][StepOf("update_fines_for_events") =>
          \A i \in DOMAIN ret'.args[1] :
              LET event == ret'.args[1][i]
              IN  IF toordinal(event.startTimestamp) < toordinal(FINES_CUTOFF_DATE)
                  THEN load_fines_data(finesFile') = load_fines_data(finesFile)
                  ELSE \A p \in event.declinedIds \cup event.unansweredIds :
                          FineKey(event.id, p) \in DOMAIN load_fines_data(finesFile')
      ]_vars

\* an event of the day before the cutoff, with a declined and an unanswered
\* member, was processed into an empty ledger
C21_Witness ==
    /\ ret.op = "update_fines_for_events"
    /\ "val" \in DOMAIN ret
    /\ ret.args[1][1].startTimestamp = <<2025, 9, 29>>
    /\ ret.args[1][1].declinedIds # {}
    /\ ret.args[1][1].unansweredIds # {}
    /\ finesFile = JsonFile(EmptyLedger)


(***************************************************************************)
(* C22: for an event on or after the cutoff calculate_event_fines gives    *)
(* every declined or unanswered player exactly one unpaid missing_event    *)
(* fine and no fine to anyone else; the amount is the match fine when the  *)
(* title holds 'match', 'kamp', 'spill' or 'game' in any case, and the     *)
(* training fine otherwise.                                                *)
(***************************************************************************)
C22_MissingEventFines ==
    (/\ ret.op = "calculate_event_fines"
     /\ toordinal(ret.args[1].startTimestamp) >= toordinal(FINES_CUTOFF_DATE))
    => LET event == ret.args[1]
           event_fines == ret.val
           titled_match == event.heading \in {"Kamp", "Home GAME"}
       IN  /\ DOMAIN event_fines = event.declinedIds \cup event.unansweredIds
           /\ \A p \in DOMAIN event_fines :
                 /\ event_fines[p].player_id = p
                 /\ event_fines[p].event_id = event.id
                 /\ event_fines[p].fine_type = "missing_event"
                 /\ ~event_fines[p].paid
                 /\ event_fines[p].fine_amount =
                        IF titled_match THEN FINE_MISSING_MATCH ELSE FINE_MISSING_TRAINING

\* the fines of "Home GAME" for a declined and an unanswered member
C22_Witness ==
    /\ ret.op = "calculate_event_fines"
    /\ ret.args[1].heading = "Home GAME"
    /\ ret.args[1].startTimestamp = <<2025, 10, 2>>
    /\ ret.args[1].declinedIds = {"M1"}
    /\ ret.args[1].unansweredIds = {"M2"}
    /\ ret.val["M2"].fine_amount = FINE_MISSING_MATCH


(***************************************************************************)
(* C23: missing_event and no_response_24h exclude each other per (event,   *)
(* player): for every event, roster and time calculate_event_fines returns *)
(* one record per player, and the ledger an update stores holds at most    *)
(* one record per (event, player), also when the player had a fine for the *)
(* event before.                                                           *)
(***************************************************************************)
C23_OneFinePerEventAndPlayer ==
    /\ ret.op = "calculate_event_fines" =>
          \A p \in DOMAIN ret.val :
              /\ ret.val[p].player_id = p
              /\ ret.val[p].event_id = ret.args[1].id
              /\ ret.val[p].fine_type \in {"missing_event", "no_response_24h"}
    /\ ret.op = "update_fines_for_events" =>
          \A j, k \in DOMAIN load_fines_data(finesFile) :
              (/\ load_fines_data(finesFile)[j].event_id = load_fines_data(finesFile)[k].event_id
               /\ load_fines_data(finesFile)[j].player_id = load_fines_data(finesFile)[k].player_id)
              => j = k

\* M1 had a paid fine for E1; an update within 24 hours of E1, with M1 and
\* M2 unanswered, stored one fine for each
C23_Witness ==
    /\ ret.op = "update_fines_for_events"
    /\ "val" \in DOMAIN ret
    /\ ret.args[1][1].startTimestamp = <<2025, 10, 2>>
    /\ ret.args[1][1].unansweredIds = {"M1", "M2"}
    /\ DOMAIN load_fines_data(finesFile) = {FineKey("E1", "M1"), FineKey("E1", "M2")}
    /\ load_fines_data(finesFile)[FineKey("E1", "M1")].paid

C29_RemovedFineComesBack ==
    [][(/\ ret.op = "remove_fine"
        /\ "val" \in DOMAIN ret
        /\ StepOf("sync_data")
        /\ ret'.val[1]) =>
          LET key == ret.args
              after == load_fines_data(finesFile')
              events == Fetched(ret'.args.events)
              Origins == {i \in DOMAIN events :
                            /\ ~SkipsEvent(events[i])
                            /\ \E p \in events[i].declinedIds \cup events[i].unansweredIds :
                                  FineKey(events[i].id, p) = key}
          IN  IF Origins = {}
              THEN key \notin DOMAIN after
              ELSE /\ key \in DOMAIN after
                   /\ ~after[key].paid
                   /\ "paid_date" \notin DOMAIN after[key]
                   /\ after[key].created_date = now
                   /\ \E i \in Origins :
                         /\ after[key].event_id = events[i].id
                         /\ after[key].fine_amount =
                               IF events[i].heading = "Kamp" THEN FINE_MISSING_MATCH
                               ELSE FINE_MISSING_TRAINING
      ]_vars

\* both members were fined for E1 at second 0; the fine of M1 is in the
\* file again, created at second 1, after its removal and a second sync
C29_Witness ==
    /\ ret.op = "sync_data"
    /\ "val" \in DOMAIN ret
    /\ ret.val[1]
    /\ DOMAIN load_fines_data(finesFile) = {FineKey("E1", "M1"), FineKey("E1", "M2")}
    /\ load_fines_data(finesFile)[FineKey("E1", "M2")].created_date = T0
    /\ load_fines_data(finesFile)[FineKey("E1", "M1")].created_date = <<0, 1, 0>>
    /\ ~load_fines_data(finesFile)[FineKey("E1", "M1")].paid


(***************************************************************************)
(* C24: the balance_info of a generation is that of the team1 and team2    *)
(* stored for the generation: their strengths (the mean of the members'    *)
(* win rates, 0 for an empty team), strength_difference = |s1 - s2|,       *)
(* balance_percentage = (1 - strength_difference) * 100 and the listing of *)
(* their players.                                                          *)
(***************************************************************************)
C24_BalanceInfoOfStoredTeams ==
    ret.op = "generate_teams_callback" =>
        LET stats == calculate_player_statistics(matchFile)
            team1 == generated_teams.team1
            team2 == generated_teams.team2
            Mean(team) == IF team = <<>> THEN Zero
                          ELSE FDivInt(SumWinRates(stats, team), Len(team))
            difference == FAbs(FSub(Mean(team1), Mean(team2)))
        IN  /\ team_balance_info.team1_strength = Mean(team1)
            /\ team_balance_info.team2_strength = Mean(team2)
            /\ team_balance_info.strength_difference = difference
            /\ team_balance_info.balance_percentage = FMulInt(FSub(One, difference), 100)
            /\ [j \in DOMAIN team_balance_info.team1_players_stats |->
                    team_balance_info.team1_players_stats[j][1]] = team1
            /\ [j \in DOMAIN team_balance_info.team2_players_stats |->
                    team_balance_info.team2_players_stats[j][1]] = team2


C27_FinesFollowResults ==
    [][StepOf("complete_pending_match") =>
          LET before == load_fines_data(finesFile)
              after == load_fines_data(finesFile')
              matches == load_training_matches(matchFile)
              completed == matches[FirstPending(matches, ret'.args[1])]
              losing == IF ret'.args[2] = 1 THEN completed.team2 ELSE completed.team1
              gained == DOMAIN after \ DOMAIN before
          IN  IF ret'.val = TRUE
              THEN /\ \A k \in DOMAIN before : k \in DOMAIN after /\ after[k] = before[k]
                   /\ Cardinality(gained) = Len(losing)
                   /\ \A k \in gained :
                         /\ after[k].player_name \in SeqToSet(losing)
                         /\ after[k].fine_type = "training_loss"
                         /\ after[k].fine_amount = 25
                         /\ ~after[k].paid
                   /\ \A p \in SeqToSet(losing) : \E k \in gained : after[k].player_name = p
              ELSE after = before
      ]_vars


(***************************************************************************)
(* C28: processed_fines_data groups the records by player_name; for each   *)
(* player total_fine is the sum of the amounts of the player's records,    *)
(* unpaid_amount the sum over the unpaid ones, and no_show_count,          *)
(* late_response_count and training_loss_count are the numbers of the      *)
(* player's missing_event, no_response_24h and training_loss records, in   *)
(* ledgers that hold manual fines as well.                                 *)
(***************************************************************************)
C28_ProcessedByPlayer ==
    ret.op = "processed_fines_data" =>
        LET ledger == fines_calculator
            Of(p) == {k \in DOMAIN ledger : ledger[k].player_name = p}
            OfType(p, fine_type) == {k \in Of(p) : ledger[k].fine_type = fine_type}
            Amount[S \in SUBSET DOMAIN ledger] ==
                IF S = {} THEN 0
                ELSE LET k == CHOOSE k \in S : TRUE
                     IN  ledger[k].fine_amount + Amount[S \ {k}]
        IN  /\ DOMAIN ret.val = {ledger[k].player_name : k \in DOMAIN ledger}
            /\ \A p \in DOMAIN ret.val :
                  /\ ret.val[p].total_fine = Amount[Of(p)]
                  /\ ret.val[p].unpaid_amount = Amount[{k \in Of(p) : ~ledger[k].paid}]
                  /\ ret.val[p].no_show_count = Cardinality(OfType(p, "missing_event"))
                  /\ ret.val[p].late_response_count =
                        Cardinality(OfType(p, "no_response_24h"))
                  /\ ret.val[p].training_loss_count =
                        Cardinality(OfType(p, "training_loss"))

====
